---- MODULE Spec2Model ----
(***************************************************************************)
(* A model of the UDP change-data-capture pipeline: the capture daemon     *)
(* (capture.py), its watermark store (JobHistory / TableHistory), and the  *)
(* archive daemon (archive.py) that moves packages from the landing        *)
(* blobstore to the archive blobstore and registers them in the            *)
(* stage_arrival_queue table.                                              *)
(*                                                                         *)
(* Time is counted in ticks since 1900-01-01; TicksPerSecond ticks make a  *)
(* second, so a timestamp that is not a multiple of TicksPerSecond has a   *)
(* non-zero microsecond part.                                              *)
(***************************************************************************)
EXTENDS Integers, Sequences, FiniteSets, TLC

\* ------------------------------------------------------------------------
\* Bounds of the model
\* ------------------------------------------------------------------------
TicksPerSecond == 2
MaxAdv == 1
MaxRows == 1
MaxFetchRows == 7
MaxJobs == 2
MaxLanded == 2
MaxCrashes == 2
MaxStageCrashes == 1
\* runs of the drop-table utility
MaxDrops == 1
\* calls of main by one daemon process
MaxRuns == 3
\* processes on one pid file, calls of acquire by each
NumProcs == 2
MaxTries == 2
\* columns of a merged table, columns of its key
MaxColumns == 3
MaxKey == 2
\* largest poll_frequency of a schedule, in seconds
MaxPoll == 2
\* configured values of table.ignore_columns
MaxPatterns == 2
\* times a capture daemon that has lost its state file lands a package again
MaxRelands == 1

\* ------------------------------------------------------------------------
\* Program constants
\* ------------------------------------------------------------------------
\* Python's None
NoneVal == -1
\* datetime.timedelta(minutes=1)
StepBackMinutes == 1
SecondsPerMinute == 60
\* default batch size when project.batch_size is not set
DefaultBatchSize == 250000
\* JobHistory.__init__ / JobHistory.load: first job id
FirstJobId == 1
\* width of the zero padded job id in f'{dataset_name}#{job_id:09}'
JobIdWidth == 9

StepBack == StepBackMinutes * SecondsPerMinute * TicksPerSecond

\* ------------------------------------------------------------------------
\* Configuration (project_capture_*.ini): table sections in declaration
\* order, and the values the model draws the settings from.
\* ------------------------------------------------------------------------
Tables == <<"t1", "t2">>
TableNames == {Tables[i] : i \in 1..Len(Tables)}

\* common.iso_to_datetime on the ISO texts used by the configurations
iso_to_datetime(text) ==
    CASE text = "1900-01-01" -> 0
      [] text = "1950-01-01" -> 400
      [] text = "2100-01-01" -> 9000
      [] OTHER -> NoneVal

\* source server clock when the capture process starts
ClockStarts == {1001}
\* by how much the source server clock moves between two observations
ClockSteps == {StepBack + 1}

\* table:<name> sections the model draws the tables' configurations from
CfgTimestamp ==
    [cdc |-> "timestamp", timestamp |-> TRUE, first_timestamp |-> "",
     first_sequence |-> 0, ignore_table |-> FALSE, drop_table |-> FALSE,
     primary_key |-> TRUE, optional_table |-> FALSE]
CfgFirstTimestamp ==
    [cdc |-> "Timestamp", timestamp |-> TRUE, first_timestamp |-> "1950-01-01",
     first_sequence |-> 0, ignore_table |-> FALSE, drop_table |-> FALSE,
     primary_key |-> FALSE, optional_table |-> FALSE]
CfgFuture ==
    [cdc |-> "timestamp", timestamp |-> TRUE, first_timestamp |-> "2100-01-01",
     first_sequence |-> 0, ignore_table |-> FALSE, drop_table |-> FALSE,
     primary_key |-> TRUE, optional_table |-> FALSE]
CfgSequence ==
    [cdc |-> "sequence", timestamp |-> TRUE, first_timestamp |-> "",
     first_sequence |-> 5, ignore_table |-> FALSE, drop_table |-> FALSE,
     primary_key |-> TRUE, optional_table |-> FALSE]
CfgNone ==
    [cdc |-> "none", timestamp |-> FALSE, first_timestamp |-> "",
     first_sequence |-> 0, ignore_table |-> FALSE, drop_table |-> FALSE,
     primary_key |-> FALSE, optional_table |-> FALSE]
CfgOptional ==
    [cdc |-> "timestamp", timestamp |-> TRUE, first_timestamp |-> "",
     first_sequence |-> 0, ignore_table |-> FALSE, drop_table |-> FALSE,
     primary_key |-> TRUE, optional_table |-> TRUE]
CfgBogus ==
    [cdc |-> "bogus", timestamp |-> TRUE, first_timestamp |-> "",
     first_sequence |-> 0, ignore_table |-> FALSE, drop_table |-> FALSE,
     primary_key |-> TRUE, optional_table |-> FALSE]
CfgIgnored ==
    [cdc |-> "timestamp", timestamp |-> TRUE, first_timestamp |-> "",
     first_sequence |-> 0, ignore_table |-> TRUE, drop_table |-> FALSE,
     primary_key |-> TRUE, optional_table |-> FALSE]

\* the project files of the model: the sections of the two tables
Project(c1, c2) == ("t1" :> c1) @@ ("t2" :> c2)
Configs ==
    { Project(CfgTimestamp, CfgTimestamp),
      Project(CfgFirstTimestamp, CfgIgnored),
      Project(CfgSequence, CfgTimestamp),
      Project(CfgFuture, CfgFirstTimestamp),
      Project(CfgTimestamp, CfgNone) }

\* project files with an optional table and with an unknown cdc setting
MoreConfigs ==
    { Project(CfgOptional, CfgTimestamp),
      Project(CfgTimestamp, CfgBogus),
      Project(CfgSequence, CfgSequence) }

\* namespace.dataset of the capture projects: names as character sequences
DatasetNames == { <<"d", "a", "t", "a", "s", "e", "t", "1">>,
                  <<"s", "a", "l", "e", "s">> }

\* namespace.dataset of the capture project
CaptureDataset == <<"d", "a", "t", "a", "s", "e", "t", "1">>

\* values Database.current_sequence can hand back
SeqValues == {0, 7}
\* project.batch_size settings ('' is 0 here: not set)
BatchSizes == {0, 1, 2, 3}

\* ------------------------------------------------------------------------
\* State
\* ------------------------------------------------------------------------
VARIABLES
    \* environment of the capture daemon
    clock,              \* source database server time (ticks)
    adv,                \* how often the clock has been moved
    jobs,               \* how many capture jobs have been started
    config,             \* table sections of the project file
    batch_size,         \* project.batch_size
    dataset_name,       \* namespace.dataset
    \* capture daemon
    capture_job,        \* the persisted state file <state_folder>/capture.job
    last_job_log,       \* <state_folder>/last_job.log: job id it was written by
    job_history,        \* JobHistory object of the running job
    job_id,             \* self.job_id of the running job
    table_object,       \* self.tables: section objects of the process
    notransfer,         \* option --notransfer
    pc,                 \* position of CaptureDaemon.main
    table_i,            \* index of the table being processed
    current_timestamp,  \* the job's snapshot time
    current_sequence,   \* current_sequence handed to process_table
    last_timestamp,     \* process_table's local last_timestamp
    cursor,             \* rows the table's cursor has not handed out yet
    batch_number,       \* process_table's batch_number
    row_count,          \* process_table's row_count
    work_folder,        \* <table>#<batch>.json files: rows per batch file
    events,             \* self.events: stat name -> row count
    zip_file,           \* the package in the publish folder
    \* blobstores and target database
    landing,            \* landing blobstore: set of packages
    recovery,           \* recovery blobstore: capture/<dataset>.zip
    archive_store,      \* archive blobstore: blobs <dataset>/<package name>
    stage_arrival_queue,\* udp_sys.stage_arrival_queue: rows in insert order
    stat_log,           \* udp_sys.stat_log: rows in insert order
    \* archive daemon
    apc,                \* position of ArchiveDaemon.main
    capture_file_name,  \* the landing file archive_capture_file works on
    local_capture_file, \* its copy in the archive daemon's work folder
    \* observations of the run (not program state)
    job_start_file,     \* capture_job as it was when the job loaded it
    transferred,        \* the job's package has been put to landing
    phases,             \* phases the running job has performed
    job_windows,        \* windows the running job ran its selects with
    job_extracted,      \* tables the running job extracted completely
    select_rows,        \* per table: rows its select returned in this job
    prev_job,           \* what the previous job did
    last_extracted,     \* per table: cursor of the last complete extraction
    last_saved,         \* per table: same, of jobs that saved the store
    last_put,           \* per table: same, of jobs that put their package
    landed,             \* per dataset: packages the capture side has landed
    crashes,            \* how often the archive daemon has failed
    archive_start,      \* queue and stat log when archive_capture_file began
    failed_at,          \* position at which the last archive run failed
    archived            \* files archive_capture_file has completed for

\* one table's select, taken by itself
VARIABLES
    source_table,       \* rows of the source table: records of ts and seq
    sel_table,          \* the table object SelectCDC is built with
    sel_history,        \* the table's history: last_timestamp, last_sequence
    sel_window,         \* current_timestamp and current_sequence of the job
    sel_job,            \* how many jobs have selected from the table
    sel_pc,             \* "off" | "build" | "done" | "raised"
    sel_rows            \* rows the job's select has handed out

selVars == <<source_table, sel_table, sel_history, sel_window, sel_job,
             sel_pc, sel_rows>>

\* stage daemon
VARIABLES
    zip_tables,         \* files of the tables in each package, by package name
    target_tables,      \* tables <dataset>.<table> of the target database
    temp_tables,        \* tables <dataset>._<table> of the target database
    stage_pending_queue,\* udp_sys.stage_pending_queue
    spc,                \* position of the stage daemon
    archive_file_name,  \* queue row process_next_file_to_stage has fetched
    stage_work_folder,  \* the unzipped capture file
    stage_table_i,      \* index of the table file stage_file is at
    stage_batch_number, \* index of the batch file the table's loop is at
    \* observation of the stage daemon
    staged,             \* names of the packages stage_file has returned for
    stage_crashes,      \* how often the stage process has ended in a failure
    stage_before,       \* target tables when the package was first begun
    stage_applied,      \* tables applied by the running stage_file
    stage_failed,       \* package whose application failed last
    stage_tries         \* how often the package in work has been begun

stgVars == <<zip_tables, target_tables, temp_tables, stage_pending_queue, spc,
             archive_file_name, stage_work_folder, stage_table_i,
             stage_batch_number, staged, stage_crashes, stage_before,
             stage_applied, stage_failed, stage_tries>>

capVars == <<clock, adv, jobs, config, batch_size, dataset_name, capture_job,
             last_job_log, job_history, job_id, table_object, notransfer, pc,
             table_i, current_timestamp, current_sequence, last_timestamp, cursor,
             batch_number, row_count, work_folder, events, zip_file, recovery,
             job_start_file, transferred, phases, job_windows, job_extracted,
             select_rows, prev_job, last_extracted, last_saved, last_put>>

arcVars == <<archive_store, stage_arrival_queue, stat_log, apc,
             capture_file_name, local_capture_file, landed, crashes,
             archive_start, failed_at, archived>>

\* the state file's content and the drop-table utility
VARIABLES
    capture_job_content,\* what capture.job holds, when it exists
    drops,              \* how often the drop-table utility has been run
    drop_argv           \* sys.argv[1] of its last run: the table named

storeVars == <<capture_job_content, drops, drop_argv>>

\* one daemon process: Daemon.run
VARIABLES
    dmn_type,           \* project.type: "capture" | "archive" | "stage"
    dmn_option,         \* options onetime, nowait, scheduled_onetime
    dmn_pc,             \* position of Daemon.run
    dmn_runs            \* how often run has called main

dmnVars == <<dmn_type, dmn_option, dmn_pc, dmn_runs>>

\* one merge statement: MergeCDC
VARIABLES
    mrg_pc,             \* "off" | "new" | "init" | "merged"
    mrg_column_names,   \* table.column_names
    mrg_extended,       \* extended_definitions (<<>> is None)
    mrg_nk,             \* the key columns merge is called with, split
    mrg_sql,            \* the parts of the statement merge has returned
    mrg_before          \* observation: table.column_names before __init__

mrgVars == <<mrg_pc, mrg_column_names, mrg_extended, mrg_nk, mrg_sql,
             mrg_before>>

\* one BlobStore object, its container and the caller's local files
VARIABLES
    bs_resource,        \* self.resource is set: the store is connected
    bs_container,       \* the container's folder exists
    bs_files,           \* blobs of the container: paths that are files
    bs_folders,         \* blob folders of the container
    bs_local,           \* local files of the caller
    bs_result,          \* the last call and what it gave back
    bs_calls            \* parity of the number of calls made

blbVars == <<bs_resource, bs_container, bs_files, bs_folders, bs_local,
             bs_result, bs_calls>>

\* one pid file and the processes that use it as a FileMutex
VARIABLES
    mtx_file,           \* the pid file: whether it exists, its pid, its creator
    mtx_pc,             \* per process: position in acquire and release
    mtx_tries           \* per process: how often it has called acquire

mtxVars == <<mtx_file, mtx_pc, mtx_tries>>

\* one Schedule object, the clock it reads and the stop signal
VARIABLES
    schedule,           \* the settings of the [schedule] section
    sch_pc,             \* position of Schedule.wait
    sch_loop,           \* `loop` of the sleep loop of the poll cycle
    sch_last_time,      \* self.last_time
    sch_now,            \* the clock: index of the current minute
    sch_stop,           \* the external stop signal is raised
    \* observation of the schedule
    sch_checked,        \* is_stopped was called in the running poll cycle
    sch_ready_times,    \* minutes at which wait has reported ready
    sch_result          \* what the last call of wait returned

schVars == <<schedule, sch_pc, sch_loop, sch_last_time, sch_now, sch_stop,
             sch_checked, sch_ready_times, sch_result>>

\* the ignore_columns step of process_table on one discovered schema
VARIABLES
    ign_pc,             \* "off" | "schema" | "saved" | "raised"
    ign_setting,        \* table.ignore_columns: the configured values
    ign_schema,         \* table_schema.columns: names in schema order
    ign_before          \* observation: the columns as they were discovered

ignVars == <<ign_pc, ign_setting, ign_schema, ign_before>>

\* one table of one capture job, from process_table to stage_file
VARIABLES
    tf_pc,              \* "off" | "table" | "skipped" | "raised" |
                        \* "selected" | "reloaded" | "merged"
    tf_section,         \* the table's section object when the job begins
    tf_history,         \* the table's history when the job begins
    tf_found,           \* select_table_schema finds the table
    tf_pk_found,        \* select_table_pk finds a primary key
    tf_file,            \* the table's files in the work folder
    tf_filtered         \* the select has the timestamp where condition

tblVars == <<tf_pc, tf_section, tf_history, tf_found, tf_pk_found, tf_file,
             tf_filtered>>

\* capture runs that upload a package under a job id used before
VARIABLE relanded

\* everything but the state file and the drop-table utility
auxVars == <<dmnVars, mrgVars, blbVars, mtxVars, schVars, ignVars, tblVars,
             relanded>>

utlVars == <<storeVars, auxVars>>

\* the pipeline's processes and stores
coreVars == <<capVars, landing, arcVars, selVars, stgVars>>

vars == <<capVars, landing, arcVars, selVars, stgVars, utlVars>>

\* ------------------------------------------------------------------------
\* Helpers
\* ------------------------------------------------------------------------
Min(a, b) == IF a < b THEN a ELSE b

Range(seq) == {seq[i] : i \in 1..Len(seq)}

\* str.lower() on the settings the configurations use
Lower(s) == IF s = "Timestamp" THEN "timestamp" ELSE s

\* digits of n, most significant first, zero padded to width w: f'{n:0w}'
RECURSIVE ZeroPad(_, _)
ZeroPad(n, w) ==
    IF w <= 0 /\ n = 0 THEN <<>>
    ELSE Append(ZeroPad(n \div 10, w - 1), n % 10)

\* int() of a digit string
RECURSIVE ParseInt(_)
ParseInt(digits) ==
    IF digits = <<>> THEN 0
    ELSE 10 * ParseInt(SubSeq(digits, 1, Len(digits) - 1)) + digits[Len(digits)]

\* the blob name f'{dataset_name}#{job_id:09}.zip', as its two parts
CaptureFileName(dataset, id) ==
    [dataset |-> dataset, job |-> ZeroPad(id, JobIdWidth)]

\* ------------------------------------------------------------------------
\* Watermark store (JobHistory, TableHistory)
\* ------------------------------------------------------------------------
NoFile == [exists |-> FALSE, job_id |-> NoneVal, tables |-> <<>>]

\* TableHistory.__init__
TableHistory == [last_timestamp |-> NoneVal, last_sequence |-> NoneVal]

\* JobHistory.load: the object a job gets from the state file
JobHistoryLoad(file) ==
    IF ~file.exists
    THEN [job_id |-> FirstJobId, tables |-> <<>>]
    ELSE [job_id |-> file.job_id, tables |-> file.tables]

\* JobHistory.get_table_history: creates the entry on first access
get_table_history(jh, t) ==
    IF t \in DOMAIN jh.tables THEN jh
    ELSE [jh EXCEPT !.tables = (t :> TableHistory) @@ jh.tables]

\* a save that never increments the job id
JobHistorySave_KeepsId(jh, is_maintenance) ==
    [exists |-> TRUE, job_id |-> jh.job_id, tables |-> jh.tables]

\* JobHistory.save: the file content written by save(is_maintenance)
JobHistorySave(jh, is_maintenance) ==
    [exists |-> TRUE,
     job_id |-> IF is_maintenance THEN jh.job_id ELSE jh.job_id + 1,
     tables |-> jh.tables]

\* ------------------------------------------------------------------------
\* Capture daemon
\* ------------------------------------------------------------------------
\* CaptureDaemon.current_timestamp: server time, one minute back, whole seconds
CurrentTimestamp(server_time) ==
    ((server_time - StepBack) \div TicksPerSecond) * TicksPerSecond

KnownCdc == {"filehash", "rowhash", "rowversion", "sequence", "timestamp"}

\* process_table, normalising the cdc setting of the table object
NormalizeCdc(obj, pk_columns) ==
    LET c1 == Lower(obj.cdc)
        c2 == IF c1 = "none" THEN "" ELSE c1
        c3 == IF c2 # "" /\ c2 \notin KnownCdc THEN "" ELSE c2
        c4 == IF c3 # "" /\ c3 # "filehash" /\ ~pk_columns THEN "" ELSE c3
    IN  [obj EXCEPT !.cdc = c4,
                    !.timestamp = IF c4 = "" THEN FALSE ELSE @]

\* process_table up to the select: what happens to the table, and the table
\* history and table object it leaves behind.
\*   found      - select_table_schema found the table
\*   pk_found   - select_table_pk found a primary key
ProcessTableHead(obj, hist, cur_ts, found, pk_found) ==
    LET first_ts == IF obj.first_timestamp = "" THEN "1900-01-01"
                    ELSE obj.first_timestamp
        obj1 == [obj EXCEPT !.first_timestamp = first_ts]
        hist1 == IF hist.last_timestamp = NoneVal
                 THEN [hist EXCEPT !.last_timestamp = iso_to_datetime(first_ts)]
                 ELSE hist
        hist2 == IF hist1.last_sequence \in {NoneVal, 0}
                 THEN [hist1 EXCEPT !.last_sequence = obj.first_sequence]
                 ELSE hist1
        obj2 == NormalizeCdc(obj1, pk_found \/ obj.primary_key)
    IN  IF obj.ignore_table \/ obj.drop_table
        THEN [outcome |-> "skip", hist |-> hist, obj |-> obj, started |-> FALSE]
        ELSE IF hist1.last_timestamp > cur_ts
        THEN [outcome |-> "skip", hist |-> hist1, obj |-> obj1, started |-> FALSE]
        ELSE IF ~found
        THEN [outcome |-> "skip", hist |-> hist2, obj |-> obj1, started |-> TRUE]
        ELSE IF ~obj2.timestamp
        THEN [outcome |-> "raise", hist |-> hist2, obj |-> obj2, started |-> TRUE]
        ELSE [outcome |-> "select", hist |-> hist2, obj |-> obj2, started |-> TRUE]

\* position of main after the table at index i has been dealt with
AfterTable(i) == IF i < Len(Tables) THEN "extract" ELSE "seal"

\* project.batch_size, or the default
BatchSize == IF batch_size # 0 THEN batch_size ELSE DefaultBatchSize

NoWindow == [has |-> FALSE, start |-> 0, end |-> 0, filtered |-> FALSE]
NoWindows == [t \in TableNames |-> NoWindow]
NoMark == [has |-> FALSE, last_timestamp |-> 0, last_sequence |-> 0]
NoMarks == [t \in TableNames |-> NoMark]
NoStarts == [t \in TableNames |-> NoneVal]
NoPrevJob == [aborted |-> FALSE, job_id |-> 0, transferred |-> FALSE,
              saved |-> FALSE, starts |-> NoStarts]

\* window starts of the selects a job has run
WindowStarts(windows) ==
    [t \in TableNames |-> IF windows[t].has THEN windows[t].start ELSE NoneVal]
NoZip == [exists |-> FALSE]
NoRows == [t \in TableNames |-> 0]
NoEvents == <<>>

\* Events.start / Events.stop: a stat that has not been stopped has row count 0
EventStart(ev, name) == (name :> 0) @@ ev
EventStop(ev, name, rows) == (name :> rows) @@ ev

\* state of main's locals between jobs
Idle ==
    /\ pc' = "idle"
    /\ job_history' = JobHistoryLoad(NoFile)
    /\ job_id' = 0
    /\ notransfer' = FALSE
    /\ table_i' = 1
    /\ current_timestamp' = 0
    /\ current_sequence' = 0
    /\ last_timestamp' = 0
    /\ cursor' = 0
    /\ batch_number' = 0
    /\ row_count' = 0
    /\ work_folder' = <<>>
    /\ events' = NoEvents
    /\ zip_file' = NoZip
    /\ transferred' = FALSE
    /\ phases' = <<>>
    /\ job_windows' = NoWindows
    /\ job_extracted' = {}
    /\ select_rows' = NoRows

\* the archive side before anything has landed
NoName == [dataset |-> <<>>, job |-> <<>>]
NoneLanded == [d \in DatasetNames |-> 0]
NoArchiveStart == [stage_arrival_queue |-> <<>>, stat_log |-> <<>>]

ArchiveIdle ==
    /\ archive_store = {}
    /\ stage_arrival_queue = <<>>
    /\ stat_log = <<>>
    /\ apc = "idle"
    /\ capture_file_name = NoName
    /\ local_capture_file = NoZip
    /\ landed = NoneLanded
    /\ crashes = 0
    /\ archive_start = NoArchiveStart
    /\ failed_at = "none"
    /\ archived = {}

InitOf(projects) ==
    /\ clock \in ClockStarts
    /\ adv = 0
    /\ jobs = 0
    /\ config \in projects
    /\ batch_size \in {0}
    /\ dataset_name = CaptureDataset
    /\ capture_job = NoFile
    /\ last_job_log = NoneVal
    /\ table_object = config
    /\ notransfer = FALSE
    /\ pc = "idle"
    /\ job_history = JobHistoryLoad(NoFile)
    /\ job_id = 0
    /\ table_i = 1
    /\ current_timestamp = 0
    /\ current_sequence = 0
    /\ last_timestamp = 0
    /\ cursor = 0
    /\ batch_number = 0
    /\ row_count = 0
    /\ work_folder = <<>>
    /\ events = NoEvents
    /\ zip_file = NoZip
    /\ landing = {}
    /\ recovery = NoZip
    /\ job_start_file = NoFile
    /\ transferred = FALSE
    /\ phases = <<>>
    /\ job_windows = NoWindows
    /\ job_extracted = {}
    /\ select_rows = NoRows
    /\ prev_job = NoPrevJob
    /\ last_extracted = NoMarks
    /\ last_saved = NoMarks
    /\ last_put = NoMarks
    /\ ArchiveIdle

\* capture.job holds what save_jsonpickle wrote, the utility has not run
StoreOff ==
    /\ capture_job_content = "jsonpickle"
    /\ drops = 0
    /\ drop_argv = ""

NoOption == [onetime |-> FALSE, nowait |-> FALSE, scheduled_onetime |-> FALSE]

\* no daemon process is looked at by itself
DaemonOff ==
    /\ dmn_type = "capture"
    /\ dmn_option = NoOption
    /\ dmn_pc = "off"
    /\ dmn_runs = 0

NoSql == [match_condition |-> <<>>, column_assignments |-> <<>>,
          column_names |-> <<>>, source_column_names |-> <<>>]

\* no merge statement is looked at by itself
MergeOff ==
    /\ mrg_pc = "off"
    /\ mrg_column_names = <<>>
    /\ mrg_extended = <<>>
    /\ mrg_nk = <<>>
    /\ mrg_sql = NoSql
    /\ mrg_before = <<>>

NoCall == [op |-> "none", file |-> "", blob |-> "", returned |-> NoneVal,
           raised |-> "", logged |-> ""]

\* BlobStore.__init__ with no container created; test, lines 301-302: the
\* local file testfile-1.txt exists, testfile-2.txt does not
BlobOff ==
    /\ bs_resource = FALSE
    /\ bs_container = FALSE
    /\ bs_files = {}
    /\ bs_folders = {}
    /\ bs_local = {"testfile-1.txt"}
    /\ bs_result = NoCall
    /\ bs_calls = 0

\* processes that use the pid file
Procs == 1..NumProcs

\* what a pid file holds: nothing yet (get_pid gives None), the pid of a
\* process that has ended, or the pid of the running process `of`
NoPid == [kind |-> "none", of |-> 0]
DeadPid == [kind |-> "dead", of |-> 0]
PidOf(p) == [kind |-> "running", of |-> p]

NoPidFile == [exists |-> FALSE, pid |-> NoPid, creator |-> 0]

\* no process uses a FileMutex
MutexOff ==
    /\ mtx_file = NoPidFile
    /\ mtx_pc = [p \in Procs |-> "off"]
    /\ mtx_tries = [p \in Procs |-> 0]

\* no schedule is looked at by itself
NoSchedule ==
    [poll_frequency |-> 0, daily_at |-> {}, hourly_at |-> {},
     skip_hours_of_day |-> {}, skip_days_of_week |-> {},
     skip_days_of_month |-> {}, skip_days_of_year |-> {}]

ScheduleOff ==
    /\ schedule = NoSchedule
    /\ sch_pc = "off"
    /\ sch_loop = 0
    /\ sch_last_time = NoneVal
    /\ sch_now = 1
    /\ sch_stop = FALSE
    /\ sch_checked = FALSE
    /\ sch_ready_times = {}
    /\ sch_result = "none"

\* no schema is looked at by itself
IgnoreOff ==
    /\ ign_pc = "off"
    /\ ign_setting = <<>>
    /\ ign_schema = <<>>
    /\ ign_before = <<>>

\* no table is looked at by itself
TableFileOff ==
    /\ tf_pc = "off"
    /\ tf_section = CfgTimestamp
    /\ tf_history = TableHistory
    /\ tf_found = FALSE
    /\ tf_pk_found = FALSE
    /\ tf_file = <<>>
    /\ tf_filtered = FALSE

\* no package is uploaded a second time
RelandOff == relanded = 0

UtilOff ==
    /\ StoreOff /\ DaemonOff /\ MergeOff /\ BlobOff /\ MutexOff
    /\ ScheduleOff /\ IgnoreOff /\ TableFileOff /\ RelandOff

\* the select of one table is not looked at by itself
SelectOff ==
    /\ source_table = {}
    /\ sel_table = CfgTimestamp
    /\ sel_history = [last_timestamp |-> 0, last_sequence |-> 0]
    /\ sel_window = [current_timestamp |-> 0, current_sequence |-> 0]
    /\ sel_job = 0
    /\ sel_pc = "off"
    /\ sel_rows = {}

\* a table of the target database that does not exist
NoTable == [exists |-> FALSE, rows |-> {}]
NoTargets == [t \in TableNames |-> NoTable]

\* the stage daemon before its first poll, on an empty target database
StageIdle ==
    /\ target_tables = NoTargets
    /\ temp_tables = NoTargets
    /\ stage_pending_queue = {}
    /\ spc = "idle"
    /\ archive_file_name = NoName
    /\ stage_work_folder = <<>>
    /\ stage_table_i = 1
    /\ stage_batch_number = 0
    /\ staged = <<>>
    /\ stage_crashes = 0
    /\ stage_before = NoTargets
    /\ stage_applied = {}
    /\ stage_failed = NoName
    /\ stage_tries = 0

\* no stage daemon is looked at
StageOff == StageIdle /\ zip_tables = <<>>

Init == InitOf(Configs) /\ SelectOff /\ UtilOff /\ StageOff

\* the source database server's clock moves on (the daemon reads it once
\* per job, in Snapshot: the model moves it between jobs)
AdvanceClock ==
    /\ pc = "idle"
    /\ adv < MaxAdv
    /\ \E d \in ClockSteps : clock' = clock + d
    /\ adv' = adv + 1
    /\ UNCHANGED <<utlVars, selVars, stgVars, arcVars, jobs, config, batch_size, dataset_name, capture_job,
                   last_job_log, job_history, job_id, table_object, notransfer, pc, table_i,
                   current_timestamp, current_sequence, last_timestamp, cursor,
                   batch_number, row_count, work_folder, events, zip_file,
                   recovery, job_start_file, transferred, phases, job_windows,
                   job_extracted, select_rows, prev_job, last_extracted, last_saved,
                   last_put, landing>>

\* main, lines 409-433: load the job history, start the job's events, clear
\* the job folders.  The option --notransfer is read from the command line.
LoadJob ==
    /\ pc = "idle"
    /\ jobs < MaxJobs
    /\ capture_job.exists => capture_job_content = "jsonpickle"
    /\ jobs' = jobs + 1
    /\ job_history' = JobHistoryLoad(capture_job)
    /\ job_id' = JobHistoryLoad(capture_job).job_id
    /\ notransfer' \in BOOLEAN
    /\ events' = EventStart(NoEvents, "capture")
    /\ work_folder' = <<>>
    /\ zip_file' = NoZip
    /\ pc' = "connect"
    /\ job_start_file' = capture_job
    /\ transferred' = FALSE
    /\ phases' = <<>>
    /\ job_windows' = NoWindows
    /\ job_extracted' = {}
    /\ select_rows' = NoRows
    /\ UNCHANGED <<utlVars, selVars, stgVars, arcVars, clock, adv, config, batch_size, dataset_name, capture_job,
                   last_job_log, table_object, table_i, current_timestamp,
                   current_sequence, last_timestamp, cursor, batch_number,
                   row_count, recovery, prev_job, last_extracted, last_saved,
                   last_put, landing>>

\* a snapshot that keeps the fraction of the second
Snapshot_KeepsFraction ==
    /\ pc = "connect"
    /\ current_timestamp' = clock - StepBack
    /\ events' = EventStart(events, "extract")
    /\ table_i' = 1
    /\ pc' = "extract"
    /\ phases' = Append(phases, "SNAPSHOT")
    /\ UNCHANGED <<utlVars, selVars, stgVars, arcVars, clock, adv, jobs, config, batch_size, dataset_name, capture_job,
                   last_job_log, job_history, job_id, table_object, notransfer,
                   current_sequence, last_timestamp, cursor, batch_number,
                   row_count, work_folder, zip_file, recovery, job_start_file,
                   transferred, job_windows, job_extracted, select_rows, prev_job,
                   last_extracted, last_saved, last_put, landing>>

\* main, lines 435-452: connect to the source database and take the job's
\* snapshot time from it.
Snapshot ==
    /\ pc = "connect"
    /\ current_timestamp' = CurrentTimestamp(clock)
    /\ events' = EventStart(events, "extract")
    /\ table_i' = 1
    /\ pc' = "extract"
    /\ phases' = Append(phases, "SNAPSHOT")
    /\ UNCHANGED <<utlVars, selVars, stgVars, arcVars, clock, adv, jobs, config, batch_size, dataset_name, capture_job,
                   last_job_log, job_history, job_id, table_object, notransfer,
                   current_sequence, last_timestamp, cursor, batch_number,
                   row_count, work_folder, zip_file, recovery, job_start_file,
                   transferred, job_windows, job_extracted, select_rows, prev_job,
                   last_extracted, last_saved, last_put, landing>>

\* a main whose exception handler saves the job history
Abort_SavesHistory ==
    /\ Idle
    /\ table_object' = config
    /\ capture_job' = JobHistorySave(job_history, FALSE)
    /\ prev_job' = [aborted |-> TRUE, job_id |-> job_id,
                    transferred |-> transferred,
                    saved |-> "ADVANCE_WATERMARK" \in Range(phases),
                    starts |-> WindowStarts(job_windows)]
    /\ UNCHANGED <<utlVars, selVars, stgVars, arcVars, clock, adv, jobs, config, batch_size, dataset_name,
                   last_job_log, recovery, job_start_file,
                   last_extracted, last_saved, last_put, landing>>

\* what the job leaves behind when an exception ends main (the process
\* ends with it; the next process reads the configuration again)
Abort ==
    /\ Idle
    /\ table_object' = config
    /\ prev_job' = [aborted |-> TRUE, job_id |-> job_id,
                    transferred |-> transferred,
                    saved |-> "ADVANCE_WATERMARK" \in Range(phases),
                    starts |-> WindowStarts(job_windows)]
    /\ UNCHANGED <<utlVars, selVars, stgVars, arcVars, clock, adv, jobs, config, batch_size, dataset_name, capture_job,
                   last_job_log, recovery, job_start_file,
                   last_extracted, last_saved, last_put, landing>>

\* an unhandled exception (database, storage or file error) or the end of
\* the process at any point of a running job
Fail ==
    /\ pc # "idle"
    /\ Abort

\* the table whose turn it is
Table == Tables[table_i]

\* main, lines 465-469: the current_sequence handed to process_table.
\* Database.current_sequence reads fetchone() of a cursor it has not
\* executed its statement on: whatever a previous statement left there.
CurrentSequences(obj) == IF obj.cdc = "sequence" THEN SeqValues ELSE {0}

\* a skip that moves the cursor of the skipped table to the job's snapshot
SkipTable_MovesCursor ==
    /\ pc = "extract"
    /\ \E found \in BOOLEAN, pk_found \in BOOLEAN,
          cs \in CurrentSequences(table_object[Table]) :
         LET jh == get_table_history(job_history, Table)
             head == ProcessTableHead(table_object[Table], jh.tables[Table],
                                      current_timestamp, found, pk_found)
         IN  /\ head.outcome = "skip"
             /\ job_history' = [jh EXCEPT !.tables[Table] =
                    [head.hist EXCEPT !.last_timestamp = current_timestamp]]
             /\ table_object' = [table_object EXCEPT ![Table] = head.obj]
             /\ events' = IF head.started THEN EventStart(events, Table)
                          ELSE events
             /\ current_sequence' = cs
    /\ pc' = AfterTable(table_i)
    /\ table_i' = IF table_i < Len(Tables) THEN table_i + 1 ELSE table_i
    /\ phases' = Append(phases, "EXTRACT")
    /\ UNCHANGED <<utlVars, selVars, stgVars, arcVars, clock, adv, jobs, config, batch_size, dataset_name, capture_job,
                   last_job_log, job_id, notransfer, current_timestamp,
                   last_timestamp, cursor, batch_number, row_count, work_folder,
                   zip_file, recovery, job_start_file, transferred, job_windows,
                   job_extracted, select_rows, prev_job, last_extracted, last_saved,
                   last_put, landing>>

\* main, lines 462-471 with process_table, lines 182-235: the table is
\* skipped (ignored, dropped, dated in the future, or not found)
SkipTable ==
    /\ pc = "extract"
    /\ \E found \in BOOLEAN, pk_found \in BOOLEAN,
          cs \in CurrentSequences(table_object[Table]) :
         LET jh == get_table_history(job_history, Table)
             head == ProcessTableHead(table_object[Table], jh.tables[Table],
                                      current_timestamp, found, pk_found)
         IN  /\ head.outcome = "skip"
             /\ job_history' = [jh EXCEPT !.tables[Table] = head.hist]
             /\ table_object' = [table_object EXCEPT ![Table] = head.obj]
             /\ events' = IF head.started THEN EventStart(events, Table)
                          ELSE events
             /\ current_sequence' = cs
    /\ pc' = AfterTable(table_i)
    /\ table_i' = IF table_i < Len(Tables) THEN table_i + 1 ELSE table_i
    /\ phases' = Append(phases, "EXTRACT")
    /\ UNCHANGED <<utlVars, selVars, stgVars, arcVars, clock, adv, jobs, config, batch_size, dataset_name, capture_job,
                   last_job_log, job_id, notransfer, current_timestamp,
                   last_timestamp, cursor, batch_number, row_count, work_folder,
                   zip_file, recovery, job_start_file, transferred, job_windows,
                   job_extracted, select_rows, prev_job, last_extracted, last_saved,
                   last_put, landing>>

\* process_table, lines 182-299: the select is built with the window
\* [last_timestamp, current_timestamp) and executed; the cursor holds the
\* rows of the source table that fall into the window
ExecuteSelect ==
    /\ pc = "extract"
    /\ \E pk_found \in BOOLEAN, cs \in CurrentSequences(table_object[Table]) :
         LET jh == get_table_history(job_history, Table)
             head == ProcessTableHead(table_object[Table], jh.tables[Table],
                                      current_timestamp, TRUE, pk_found)
         IN  /\ head.outcome = "select"
             /\ job_history' = [jh EXCEPT !.tables[Table] = head.hist]
             /\ table_object' = [table_object EXCEPT ![Table] = head.obj]
             /\ last_timestamp' = head.hist.last_timestamp
             /\ job_windows' = [job_windows EXCEPT ![Table] =
                    [has |-> TRUE, start |-> head.hist.last_timestamp,
                     end |-> current_timestamp, filtered |-> head.obj.timestamp]]
             /\ current_sequence' = cs
    /\ events' = EventStart(events, Table)
    /\ cursor' \in 0..MaxRows
    /\ select_rows' = [select_rows EXCEPT ![Table] = cursor']
    /\ batch_number' = 0
    /\ row_count' = 0
    /\ pc' = "fetch"
    /\ phases' = Append(phases, "EXTRACT")
    /\ UNCHANGED <<utlVars, selVars, stgVars, arcVars, clock, adv, jobs, config, batch_size, dataset_name, capture_job,
                   last_job_log, job_id, notransfer, table_i, current_timestamp,
                   work_folder, zip_file, recovery, job_start_file, transferred,
                   job_extracted, prev_job, last_extracted, last_saved,
                   last_put, landing>>

\* process_table, line 291: for a table without timestamp column the select
\* calls Database.timestamp_literal, which raises NameError (its f-string
\* names current_timestamp, its parameter is timestamp_value)
TimestampLiteralRaises ==
    /\ pc = "extract"
    /\ \E pk_found \in BOOLEAN :
         LET jh == get_table_history(job_history, Table)
             head == ProcessTableHead(table_object[Table], jh.tables[Table],
                                      current_timestamp, TRUE, pk_found)
         IN  head.outcome = "raise"
    /\ Abort

\* main, line 467: Database.current_sequence raises (fetchone() gave None)
CurrentSequenceRaises ==
    /\ pc = "extract"
    /\ table_object[Table].cdc = "sequence"
    /\ Abort

\* the rows cursor.fetchmany(n) hands out when `left` rows are left
fetchmany(left, n) == Min(left, n)

\* a batch loop that keeps the row count of the last batch only
FetchBatch_CountsLastBatch ==
    /\ pc = "fetch"
    /\ fetchmany(cursor, BatchSize) > 0
    /\ batch_number' = batch_number + 1
    /\ work_folder' = [f \in {<<Table, batch_number + 1>>} |->
                          fetchmany(cursor, BatchSize)] @@ work_folder
    /\ row_count' = fetchmany(cursor, BatchSize)
    /\ cursor' = cursor - fetchmany(cursor, BatchSize)
    /\ UNCHANGED <<utlVars, selVars, stgVars, arcVars, clock, adv, jobs, config, batch_size, dataset_name, capture_job,
                   last_job_log, job_history, job_id, table_object, notransfer,
                   pc, table_i, current_timestamp, current_sequence,
                   last_timestamp, events, zip_file, recovery, job_start_file,
                   transferred, phases, job_windows, job_extracted, select_rows, prev_job,
                   last_extracted, last_saved, last_put, landing>>

\* process_table, lines 313-329: one turn of the batch loop that got rows
FetchBatch ==
    /\ pc = "fetch"
    /\ fetchmany(cursor, BatchSize) > 0
    /\ batch_number' = batch_number + 1
    /\ work_folder' = [f \in {<<Table, batch_number + 1>>} |->
                          fetchmany(cursor, BatchSize)] @@ work_folder
    /\ row_count' = row_count + fetchmany(cursor, BatchSize)
    /\ cursor' = cursor - fetchmany(cursor, BatchSize)
    /\ UNCHANGED <<utlVars, selVars, stgVars, arcVars, clock, adv, jobs, config, batch_size, dataset_name, capture_job,
                   last_job_log, job_history, job_id, table_object, notransfer,
                   pc, table_i, current_timestamp, current_sequence,
                   last_timestamp, events, zip_file, recovery, job_start_file,
                   transferred, phases, job_windows, job_extracted, select_rows, prev_job,
                   last_extracted, last_saved, last_put, landing>>

\* the table history process_table leaves when the extraction is complete
CompletedHistory(hist, cur_ts, cur_seq) ==
    [hist EXCEPT !.last_timestamp = cur_ts, !.last_sequence = cur_seq]

\* process_table, lines 314-317 and 331-346: the fetch that gets no rows
\* ends the loop; the table history and the table's metrics are updated
ProcessTableEnd ==
    /\ pc = "fetch"
    /\ fetchmany(cursor, BatchSize) = 0
    /\ batch_number' = batch_number + 1
    /\ job_history' = [job_history EXCEPT !.tables[Table] =
                          CompletedHistory(@, current_timestamp, current_sequence)]
    /\ events' = EventStop(events, Table, row_count)
    /\ pc' = AfterTable(table_i)
    /\ table_i' = IF table_i < Len(Tables) THEN table_i + 1 ELSE table_i
    /\ job_extracted' = job_extracted \cup {Table}
    /\ last_extracted' = [last_extracted EXCEPT ![Table] =
                             [has |-> TRUE, last_timestamp |-> current_timestamp,
                              last_sequence |-> current_sequence]]
    /\ UNCHANGED <<utlVars, selVars, stgVars, arcVars, clock, adv, jobs, config, batch_size, dataset_name, capture_job,
                   last_job_log, job_id, table_object, notransfer,
                   current_timestamp, current_sequence, last_timestamp, cursor,
                   row_count, work_folder, zip_file, recovery, job_start_file,
                   transferred, phases, job_windows, select_rows, prev_job,
                   last_saved, last_put, landing>>

\* sum of the row counts of the table stats
RECURSIVE SumRows(_, _)
SumRows(ev, names) ==
    IF names = {} THEN 0
    ELSE LET n == CHOOSE x \in names : TRUE
         IN  ev[n] + SumRows(ev, names \ {n})

JobRowCount == SumRows(events, DOMAIN events \cap TableNames)

\* main, lines 472-479 with compress_work_folder: the job's metrics are
\* saved to job.log in the work folder, last_job.log of the state folder is
\* copied to it, and the work folder is zipped to <dataset>#<job_id:09>.zip
CompressWorkFolder ==
    /\ pc = "seal"
    /\ LET ev == EventStop(EventStop(events, "extract", JobRowCount),
                           "capture", JobRowCount)
       IN  /\ zip_file' = [exists |-> TRUE,
                           name |-> CaptureFileName(dataset_name, job_id),
                           job_log |-> DOMAIN ev,
                           last_job_log |-> last_job_log]
           /\ events' = EventStart(ev, "compress")
    /\ pc' = "upload"
    /\ phases' = Append(phases, "SEAL")
    /\ UNCHANGED <<utlVars, selVars, stgVars, arcVars, clock, adv, jobs, config, batch_size, dataset_name, capture_job,
                   last_job_log, job_history, job_id, table_object, notransfer,
                   table_i, current_timestamp, current_sequence, last_timestamp,
                   cursor, batch_number, row_count, work_folder, recovery,
                   job_start_file, transferred, job_windows, job_extracted, select_rows,
                   prev_job, last_extracted, last_saved, last_put, landing>>

\* BlobStore.put on a connected store: the blob of that name is (re)written
BlobPut(store, blob) == {b \in store : b.name # blob.name} \cup {blob}

\* marks of the tables the running job extracted completely
MarkExtracted(marks) ==
    [t \in TableNames |->
        IF t \in job_extracted
        THEN last_extracted[t]
        ELSE marks[t]]

\* an upload that goes on without having put the package
UploadToBlobstore_NoPut ==
    /\ pc = "upload"
    /\ pc' = "final"
    /\ UNCHANGED <<utlVars, selVars, stgVars, arcVars, clock, adv, jobs, config, batch_size, dataset_name, capture_job,
                   last_job_log, job_history, job_id, table_object, notransfer,
                   table_i, current_timestamp, current_sequence, last_timestamp,
                   cursor, batch_number, row_count, work_folder, zip_file,
                   recovery, job_start_file, job_windows, job_extracted, select_rows,
                   prev_job, last_extracted, last_saved, landing, events,
                   transferred, phases, last_put>>

\* upload_to_blobstore: put the package to the landing blobstore, unless
\* the job runs with --notransfer
UploadToBlobstore ==
    /\ pc = "upload"
    /\ IF notransfer
       THEN UNCHANGED <<landing, events, transferred, phases, last_put>>
       ELSE /\ landing' = BlobPut(landing, zip_file)
            /\ events' = EventStart(events, "upload")
            /\ transferred' = TRUE
            /\ phases' = Append(phases, "TRANSFER")
            /\ last_put' = MarkExtracted(last_put)
    /\ pc' = "final"
    /\ UNCHANGED <<utlVars, selVars, stgVars, arcVars, clock, adv, jobs, config, batch_size, dataset_name, capture_job,
                   last_job_log, job_history, job_id, table_object, notransfer,
                   table_i, current_timestamp, current_sequence, last_timestamp,
                   cursor, batch_number, row_count, work_folder, zip_file,
                   recovery, job_start_file, job_windows, job_extracted, select_rows,
                   prev_job, last_extracted, last_saved>>

\* main, lines 484-487: the final metrics are saved to last_job.log in the
\* state folder and to job.log
FinalMetrics ==
    /\ pc = "final"
    /\ last_job_log' = job_id
    /\ pc' = "save"
    /\ UNCHANGED <<utlVars, selVars, stgVars, arcVars, clock, adv, jobs, config, batch_size, dataset_name, capture_job,
                   job_history, job_id, table_object, notransfer, table_i,
                   current_timestamp, current_sequence, last_timestamp, cursor,
                   batch_number, row_count, work_folder, events, zip_file,
                   recovery, job_start_file, transferred, phases, job_windows,
                   job_extracted, select_rows, prev_job, last_extracted, last_saved,
                   last_put, landing>>

\* a save that is made in a job run with --notransfer as well
SaveJobHistory_Always ==
    /\ pc = "save"
    /\ capture_job' = JobHistorySave(job_history, FALSE)
    /\ job_history' = [job_history EXCEPT
                          !.job_id = JobHistorySave(job_history, FALSE).job_id]
    /\ phases' = Append(phases, "ADVANCE_WATERMARK")
    /\ last_saved' = MarkExtracted(last_saved)
    /\ pc' = "recovery"
    /\ UNCHANGED <<utlVars, selVars, stgVars, arcVars, clock, adv, jobs, config, batch_size, dataset_name, last_job_log,
                   job_id, table_object, notransfer, table_i, current_timestamp,
                   current_sequence, last_timestamp, cursor, batch_number,
                   row_count, work_folder, events, zip_file, recovery,
                   job_start_file, transferred, job_windows, job_extracted, select_rows,
                   prev_job, last_extracted, last_put, landing>>

\* main, lines 489-492: job_history.save(), unless the job runs with
\* --notransfer
SaveJobHistory ==
    /\ pc = "save"
    /\ IF notransfer
       THEN UNCHANGED <<capture_job, job_history, phases, last_saved>>
       ELSE /\ capture_job' = JobHistorySave(job_history, FALSE)
            /\ job_history' = [job_history EXCEPT
                                  !.job_id = JobHistorySave(job_history, FALSE).job_id]
            /\ phases' = Append(phases, "ADVANCE_WATERMARK")
            /\ last_saved' = MarkExtracted(last_saved)
    /\ pc' = "recovery"
    /\ UNCHANGED <<utlVars, selVars, stgVars, arcVars, clock, adv, jobs, config, batch_size, dataset_name, last_job_log,
                   job_id, table_object, notransfer, table_i, current_timestamp,
                   current_sequence, last_timestamp, cursor, batch_number,
                   row_count, work_folder, events, zip_file, recovery,
                   job_start_file, transferred, job_windows, job_extracted, select_rows,
                   prev_job, last_extracted, last_put, landing>>

\* save_recovery_state_file: zip the state folder and put it to the recovery
\* blobstore as capture/<dataset>.zip, unless the job runs with --notransfer
SaveRecoveryStateFile ==
    /\ pc = "recovery"
    /\ IF notransfer
       THEN UNCHANGED <<recovery, phases>>
       ELSE /\ recovery' = [exists |-> TRUE, capture_job |-> capture_job,
                            last_job_log |-> last_job_log]
            /\ phases' = Append(phases, "RECOVERY_SNAPSHOT")
    /\ pc' = "done"
    /\ UNCHANGED <<utlVars, selVars, stgVars, arcVars, clock, adv, jobs, config, batch_size, dataset_name, capture_job,
                   last_job_log, job_history, job_id, table_object, notransfer,
                   table_i, current_timestamp, current_sequence, last_timestamp,
                   cursor, batch_number, row_count, work_folder, events,
                   zip_file, job_start_file, transferred, job_windows,
                   job_extracted, select_rows, prev_job, last_extracted, last_saved,
                   last_put, landing>>

\* main, lines 497-510: the job is over, the daemon waits for its schedule
JobDone ==
    /\ pc = "done"
    /\ Idle
    /\ prev_job' = NoPrevJob
    /\ UNCHANGED <<utlVars, selVars, stgVars, arcVars, clock, adv, jobs, config, batch_size, dataset_name, capture_job,
                   last_job_log, table_object, recovery, job_start_file,
                   last_extracted, last_saved, last_put, landing>>

Next ==
    \/ AdvanceClock
    \/ LoadJob
    \/ Snapshot
    \/ SkipTable
    \/ ExecuteSelect
    \/ TimestampLiteralRaises
    \/ CurrentSequenceRaises
    \/ FetchBatch
    \/ ProcessTableEnd
    \/ CompressWorkFolder
    \/ UploadToBlobstore
    \/ FinalMetrics
    \/ SaveJobHistory
    \/ SaveRecoveryStateFile
    \/ JobDone
    \/ Fail

Spec == Init /\ [][Next]_vars

\* ------------------------------------------------------------------------
\* Properties of the capture daemon
\* ------------------------------------------------------------------------
\* the job id a job starting now would run under
PersistedJobId == JobHistoryLoad(capture_job).job_id

\* a job ends: normally or by an exception
JobEnds == pc # "idle" /\ pc' = "idle"

\* C1: the persisted job_id increases by exactly 1 for each job whose
\* package was transferred to landing, and is unchanged by a job in
\* no-transfer mode and by a job that fails before packaging.
C1_JobIdPerTransferredJob ==
    [][JobEnds =>
         PersistedJobId' = JobHistoryLoad(job_start_file).job_id
                             + (IF transferred THEN 1 ELSE 0)]_vars

\* C2: a job aborted before ADVANCE_WATERMARK leaves the persisted store as
\* it was when the job started, and the next job runs under the same job id
\* and starts every table's window where the aborted job started it.
C2_AbortLeavesStore ==
    (prev_job.aborted /\ ~prev_job.saved) =>
        /\ pc = "idle" => capture_job = job_start_file
        /\ pc # "idle" =>
             /\ job_id = prev_job.job_id
             /\ \A t \in TableNames :
                  (job_windows[t].has /\ prev_job.starts[t] # NoneVal)
                      => job_windows[t].start = prev_job.starts[t]

\* C2 witness: after a job that was aborted with a window computed, the
\* next job has computed its window of the same table.
C2_Witness ==
    /\ prev_job.aborted /\ ~prev_job.saved
    /\ pc # "idle"
    /\ \E t \in TableNames :
         job_windows[t].has /\ prev_job.starts[t] # NoneVal

\* the phases of a job that runs to its end, in their order
RECURSIVE Repeat(_, _)
Repeat(x, n) == IF n = 0 THEN <<>> ELSE <<x>> \o Repeat(x, n - 1)

FullPhases ==
    <<"SNAPSHOT">> \o Repeat("EXTRACT", Len(Tables)) \o
    <<"SEAL", "TRANSFER", "ADVANCE_WATERMARK", "RECOVERY_SNAPSHOT">>

IsPrefix(a, b) == Len(a) <= Len(b) /\ a = SubSeq(b, 1, Len(a))

\* C3: the phases of a job occur in the order SNAPSHOT, EXTRACT per table,
\* SEAL, TRANSFER, ADVANCE_WATERMARK, RECOVERY_SNAPSHOT, and the watermark
\* store is written (and the job counter incremented) only after the
\* package has been put to landing.
C3_PhaseOrder ==
    /\ IsPrefix(phases, FullPhases)
    /\ (pc # "idle" /\ capture_job # job_start_file) =>
          /\ "ADVANCE_WATERMARK" \in Range(phases)
          /\ transferred
          /\ \E b \in landing : b.name = CaptureFileName(dataset_name, job_id)
          /\ capture_job.job_id = job_id + 1

\* C3 witness: a job has run through all its phases.
C3_Witness ==
    /\ pc = "done"
    /\ phases = FullPhases
    /\ capture_job # job_start_file

\* the cursor a table has before any job extracted it: nothing, or the
\* configured first values
IsDefaultCursor(t, hist) ==
    /\ hist.last_timestamp \in
          {NoneVal,
           iso_to_datetime(IF config[t].first_timestamp = "" THEN "1900-01-01"
                           ELSE config[t].first_timestamp)}
    /\ hist.last_sequence \in {NoneVal, config[t].first_sequence}

CursorIs(hist, mark) ==
    /\ hist.last_timestamp = mark.last_timestamp
    /\ hist.last_sequence = mark.last_sequence

C5_WindowsTile ==
    [][(pc = "upload" /\ transferred') =>
         \A t \in TableNames :
            (job_windows[t].has /\ job_windows[t].filtered /\ last_put[t].has)
                => /\ job_windows[t].start = last_put[t].last_timestamp
                   /\ job_windows[t].start <= job_windows[t].end]_vars

\* the same for jobs that also saved the store
C5_SavedWindowsTile ==
    [][(pc = "upload" /\ transferred') =>
         \A t \in TableNames :
            (job_windows[t].has /\ job_windows[t].filtered /\ last_saved[t].has)
                => /\ job_windows[t].start = last_saved[t].last_timestamp
                   /\ job_windows[t].start <= job_windows[t].end]_vars

\* server time minus one minute, truncated to whole seconds: the latest
\* whole second that is not after server_time - 1 minute
SnapshotTime(server_time) ==
    CHOOSE x \in (server_time - 2 * SecondsPerMinute * TicksPerSecond)..server_time :
        /\ x % TicksPerSecond = 0
        /\ x <= server_time - SecondsPerMinute * TicksPerSecond
        /\ x + TicksPerSecond > server_time - SecondsPerMinute * TicksPerSecond

NoPriorWatermark(t) ==
    \/ ~job_start_file.exists
    \/ t \notin DOMAIN job_start_file.tables
    \/ job_start_file.tables[t].last_timestamp = NoneVal

\* C6: the first window of a cdc=timestamp table without prior watermark is
\* [first_timestamp, snapshot) or [1900-01-01, snapshot).
C6_FirstWindow ==
    \A t \in TableNames :
        (/\ pc # "idle"
         /\ job_windows[t].has
         /\ table_object[t].cdc = "timestamp"
         /\ NoPriorWatermark(t))
        => /\ job_windows[t].filtered
           /\ job_windows[t].start =
                 (IF config[t].first_timestamp = ""
                  THEN iso_to_datetime("1900-01-01")
                  ELSE iso_to_datetime(config[t].first_timestamp))
           /\ job_windows[t].end = SnapshotTime(clock)

\* C6 witness: a first window with a configured first_timestamp, taken at a
\* server time that is not a whole second.
C6_Witness ==
    \E t \in TableNames :
        /\ pc # "idle"
        /\ job_windows[t].has
        /\ table_object[t].cdc = "timestamp"
        /\ NoPriorWatermark(t)
        /\ config[t].first_timestamp = "1950-01-01"
        /\ clock % TicksPerSecond # 0

\* ------------------------------------------------------------------------
\* The batch loop of process_table on its own: a job of a project with
\* batch size B has just executed the select of its first table, which
\* returned N rows.
\* ------------------------------------------------------------------------
BatchHead ==
    ProcessTableHead(CfgTimestamp, TableHistory, CurrentTimestamp(1001),
                     TRUE, TRUE)

BatchInit ==
    /\ SelectOff /\ UtilOff
    /\ StageOff
    /\ clock = 1001
    /\ adv = 0
    /\ jobs = 1
    /\ config = Project(CfgTimestamp, CfgTimestamp)
    /\ batch_size \in BatchSizes
    /\ dataset_name = CaptureDataset
    /\ capture_job = NoFile
    /\ last_job_log = NoneVal
    /\ table_object = [config EXCEPT !["t1"] = BatchHead.obj]
    /\ notransfer = FALSE
    /\ pc = "fetch"
    /\ job_history = [job_id |-> FirstJobId, tables |-> ("t1" :> BatchHead.hist)]
    /\ job_id = FirstJobId
    /\ table_i = 1
    /\ current_timestamp = CurrentTimestamp(1001)
    /\ current_sequence = 0
    /\ last_timestamp = BatchHead.hist.last_timestamp
    /\ cursor \in 0..MaxFetchRows
    /\ select_rows = [NoRows EXCEPT !["t1"] = cursor]
    /\ batch_number = 0
    /\ row_count = 0
    /\ work_folder = <<>>
    /\ events = EventStart(EventStart(EventStart(NoEvents, "capture"),
                                      "extract"), "t1")
    /\ zip_file = NoZip
    /\ landing = {}
    /\ recovery = NoZip
    /\ job_start_file = NoFile
    /\ transferred = FALSE
    /\ phases = <<"SNAPSHOT", "EXTRACT">>
    /\ job_windows = [NoWindows EXCEPT !["t1"] =
                         [has |-> TRUE, start |-> BatchHead.hist.last_timestamp,
                          end |-> CurrentTimestamp(1001), filtered |-> TRUE]]
    /\ job_extracted = {}
    /\ prev_job = NoPrevJob
    /\ last_extracted = NoMarks
    /\ last_saved = NoMarks
    /\ last_put = NoMarks
    /\ ArchiveIdle

BatchNext ==
    \/ FetchBatch
    \/ ProcessTableEnd

SpecBatch == BatchInit /\ [][BatchNext]_vars

CeilDiv(n, b) == (n + b - 1) \div b

\* batch files <table>#<number>.json of table t in the work folder
BatchFiles(t) == {f \in DOMAIN work_folder : f[1] = t}

RECURSIVE SumFiles(_)
SumFiles(files) ==
    IF files = {} THEN 0
    ELSE LET f == CHOOSE x \in files : TRUE
         IN  work_folder[f] + SumFiles(files \ {f})

\* C7: a table extracted with batch size B whose select returned N rows has
\* ceil(N/B) batch files numbered 1, 2, ..., each but the last with B rows,
\* none empty, with N rows in all, and N is the row count of its metrics.
C7_Batches ==
    \A t \in job_extracted :
        /\ {f[2] : f \in BatchFiles(t)} = 1..CeilDiv(select_rows[t], BatchSize)
        /\ \A f \in BatchFiles(t) :
              /\ work_folder[f] > 0
              /\ f[2] < CeilDiv(select_rows[t], BatchSize)
                    => work_folder[f] = BatchSize
        /\ SumFiles(BatchFiles(t)) = select_rows[t]
        /\ events[t] = select_rows[t]

\* C7 witness: an extraction of several batches whose last batch is not full.
C7_Witness ==
    \E t \in job_extracted :
        /\ Cardinality(BatchFiles(t)) >= 2
        /\ select_rows[t] % BatchSize # 0

\* ------------------------------------------------------------------------
\* The capture daemon left to itself: no exception but those its own code
\* raises, no end of the process in the middle of a job
\* ------------------------------------------------------------------------
NoFailNext ==
    \/ AdvanceClock
    \/ LoadJob
    \/ Snapshot
    \/ SkipTable
    \/ ExecuteSelect
    \/ TimestampLiteralRaises
    \/ CurrentSequenceRaises
    \/ FetchBatch
    \/ ProcessTableEnd
    \/ CompressWorkFolder
    \/ UploadToBlobstore
    \/ FinalMetrics
    \/ SaveJobHistory
    \/ SaveRecoveryStateFile
    \/ JobDone

NoFailInit == InitOf(Configs \cup MoreConfigs) /\ SelectOff /\ UtilOff /\ StageOff

SpecNoFail == NoFailInit /\ [][NoFailNext]_vars

\* the cdc setting is none of the known ones, nor empty or none
Unrecognized(cdc) == Lower(cdc) \notin KnownCdc \cup {"", "none"}

\* the cdc setting needs a key and the table section configures none
NeedsKey(obj) ==
    /\ Lower(obj.cdc) \in KnownCdc \ {"filehash"}
    /\ ~obj.primary_key

\* events.start(table) has run and no select has: the table was not found
NotFoundInJob(t) == t \in DOMAIN events /\ ~job_windows[t].has

\* C17: a table whose cdc setting is unrecognized, or needs a key where none
\* may be found, does not end the job: the setting is cleared and the table
\* is extracted with a select that has no window filter.
C17_FallbackExtractsInFull ==
    [][(/\ pc = "extract"
        /\ \/ Unrecognized(table_object[Table].cdc)
           \/ NeedsKey(table_object[Table]))
       => /\ pc' # "idle"
          /\ (pc' = "fetch" /\ table_object'[Table].cdc = "")
                => ~job_windows'[Table].filtered]_vars

\* C18: a table that is not found is passed over, with the job going on,
\* only if it is optional; a required table that is not found ends the job.
C18_RequiredTableMissingFailsJob ==
    \A t \in TableNames :
        NotFoundInJob(t) => (config[t].optional_table /\ pc # "idle")

\* ------------------------------------------------------------------------
\* Archive daemon
\* ------------------------------------------------------------------------
\* glob match of the pattern "dataset*" on a blob name: the name
\* begins with the dataset name, followed by "#"
LandingGlob == <<"d", "a", "t", "a", "s", "e", "t">>

GlobMatches(glob_prefix, name) ==
    /\ Len(name.dataset) >= Len(glob_prefix)
    /\ SubSeq(name.dataset, 1, Len(glob_prefix)) = glob_prefix

\* code points of the characters blob names are made of
Ord(c) ==
    CASE c = "#" -> 35
      [] c = "1" -> 49
      [] c = "a" -> 97
      [] c = "d" -> 100
      [] c = "e" -> 101
      [] c = "l" -> 108
      [] c = "s" -> 115
      [] c = "t" -> 116

\* the blob name as code points: <dataset>#<digits> (all names end in .zip)
NameOrds(name) ==
    [i \in 1..Len(name.dataset) |-> Ord(name.dataset[i])] \o <<Ord("#")>> \o
    [i \in 1..Len(name.job) |-> 48 + name.job[i]]

\* string comparison a < b
RECURSIVE LexLess(_, _)
LexLess(a, b) ==
    IF b = <<>> THEN FALSE
    ELSE IF a = <<>> THEN TRUE
    ELSE IF a[1] # b[1] THEN a[1] < b[1]
    ELSE LexLess(Tail(a), Tail(b))

\* BlobStore.list(glob): the names of the matching blobs; the caller takes
\* the first of the sorted list
BlobList(store, glob_prefix) ==
    {b.name : b \in {x \in store : GlobMatches(glob_prefix, x.name)}}

\* the name that sorts last
FirstName_Last(names) ==
    CHOOSE n \in names :
        \A m \in names \ {n} : LexLess(NameOrds(m), NameOrds(n))

FirstName(names) ==
    CHOOSE n \in names :
        \A m \in names \ {n} : LexLess(NameOrds(n), NameOrds(m))

\* stat names in the order Events.save writes them
StatOrder == <<"capture", "extract", "t1", "t2", "compress", "upload">>

\* rows of a log file whose stats are `stages`, written by job `id`
LogRows(dataset, id, stages) ==
    [i \in 1..Len(SelectSeq(StatOrder, LAMBDA st : st \in stages)) |->
        [dataset |-> dataset, job_id |-> id,
         event_stage |-> SelectSeq(StatOrder, LAMBDA st : st \in stages)[i]]]

\* update_stat_log: the rows it inserts for a package
StatLogRows(package) ==
    LogRows(package.name.dataset, ParseInt(package.name.job),
            package.job_log \ {"capture"})
    \o (IF package.last_job_log = NoneVal THEN <<>>
        ELSE LogRows(package.name.dataset, package.last_job_log,
                     {"capture", "compress", "upload"}))

\* a capture daemon of some dataset puts its next package to landing
LandPackageOf(d) ==
    /\ landed[d] < MaxLanded
    /\ landed' = [landed EXCEPT ![d] = @ + 1]
    /\ landing' = BlobPut(landing,
           [exists |-> TRUE,
            name |-> CaptureFileName(d, FirstJobId + landed[d]),
            job_log |-> {"capture", "extract", "t1", "t2"},
            last_job_log |-> IF landed[d] = 0 THEN NoneVal
                             ELSE FirstJobId + landed[d] - 1])
    /\ UNCHANGED <<utlVars, selVars, stgVars, capVars, archive_store, stage_arrival_queue, stat_log, apc,
                   capture_file_name, local_capture_file, crashes,
                   archive_start, failed_at, archived>>

\* a capture daemon of any dataset uploads its next package
LandPackage == \E d \in DatasetNames : LandPackageOf(d)

\* main, lines 156-161: the schedule starts main, which connects to the
\* target database
ArchiveMain ==
    /\ apc = "idle"
    /\ apc' = "poll"
    /\ UNCHANGED <<utlVars, selVars, stgVars, capVars, landing, archive_store, stage_arrival_queue,
                   stat_log, capture_file_name, local_capture_file, landed,
                   crashes, archive_start, failed_at, archived>>

\* main, lines 164-174 with get_landing_file: take the first landing file
\* matching dataset*, or leave the loop when there is none
GetLandingFile ==
    /\ apc = "poll"
    /\ IF BlobList(landing, LandingGlob) = {}
       THEN /\ apc' = "idle"
            /\ capture_file_name' = NoName
       ELSE /\ apc' = "get"
            /\ capture_file_name' = FirstName(BlobList(landing, LandingGlob))
    /\ UNCHANGED <<utlVars, selVars, stgVars, capVars, landing, archive_store, stage_arrival_queue,
                   stat_log, local_capture_file, landed, crashes,
                   archive_start, failed_at, archived>>

\* archive_capture_file, lines 64-75: clear the work folder and get the
\* capture file from landing into it
ArchiveGet ==
    /\ apc = "get"
    /\ local_capture_file' =
          IF \E b \in landing : b.name = capture_file_name
          THEN CHOOSE b \in landing : b.name = capture_file_name
          ELSE NoZip
    /\ archive_start' = [stage_arrival_queue |-> stage_arrival_queue,
                         stat_log |-> stat_log]
    /\ failed_at' = "none"
    /\ apc' = "stat"
    /\ UNCHANGED <<utlVars, selVars, stgVars, capVars, landing, archive_store, stage_arrival_queue,
                   stat_log, capture_file_name, landed, crashes, archived>>

\* archive_capture_file, line 78 with update_stat_log: the metrics of the
\* package are inserted into the stat log
UpdateStatLog ==
    /\ apc = "stat"
    /\ local_capture_file.exists
    /\ stat_log' = stat_log \o StatLogRows(local_capture_file)
    /\ apc' = "put"
    /\ UNCHANGED <<utlVars, selVars, stgVars, capVars, landing, archive_store, stage_arrival_queue,
                   capture_file_name, local_capture_file, landed, crashes,
                   archive_start, failed_at, archived>>

\* archive_capture_file, lines 80-89: put the local copy to the archive
\* blobstore as <dataset>/<capture file name>
ArchivePut ==
    /\ apc = "put"
    /\ archive_store' =
          BlobPut(archive_store,
                  [name |-> [folder |-> capture_file_name.dataset,
                             file |-> capture_file_name],
                   content |-> local_capture_file])
    /\ apc' = "delete"
    /\ UNCHANGED <<utlVars, selVars, stgVars, capVars, landing, stage_arrival_queue, stat_log,
                   capture_file_name, local_capture_file, landed, crashes,
                   archive_start, failed_at, archived>>

\* BlobStore.delete on a connected store
BlobDelete(store, name) == {b \in store : b.name # name}

\* an archive that leaves the capture file in landing
ArchiveDelete_Keeps ==
    /\ apc = "delete"
    /\ apc' = "queue"
    /\ UNCHANGED <<utlVars, selVars, stgVars, capVars, landing, archive_store, stage_arrival_queue, stat_log,
                   capture_file_name, local_capture_file, landed, crashes,
                   archive_start, failed_at, archived>>

\* archive_capture_file, lines 91-94: delete the capture file from landing
ArchiveDelete ==
    /\ apc = "delete"
    /\ landing' = BlobDelete(landing, capture_file_name)
    /\ apc' = "queue"
    /\ UNCHANGED <<utlVars, selVars, stgVars, capVars, archive_store, stage_arrival_queue, stat_log,
                   capture_file_name, local_capture_file, landed, crashes,
                   archive_start, failed_at, archived>>

\* archive_capture_file, line 97 with update_stage_arrival_queue: the file
\* is registered in the stage arrival queue; main loops
UpdateStageArrivalQueue ==
    /\ apc = "queue"
    /\ stage_arrival_queue' =
          Append(stage_arrival_queue,
                 [archive_file_name |-> capture_file_name,
                  job_id |-> ParseInt(capture_file_name.job)])
    /\ archived' = archived \cup {capture_file_name}
    /\ apc' = "poll"
    /\ UNCHANGED <<utlVars, selVars, stgVars, capVars, landing, archive_store, stat_log,
                   capture_file_name, local_capture_file, landed, crashes,
                   archive_start, failed_at>>

\* an exception of a blobstore or database call (main re-raises it), or the
\* end of the process, at any point of main: the daemon ends and is started
\* again
ArchiveFail ==
    /\ apc # "idle"
    /\ crashes < MaxCrashes
    /\ crashes' = crashes + 1
    /\ failed_at' = apc
    /\ apc' = "idle"
    /\ UNCHANGED <<utlVars, selVars, stgVars, capVars, landing, archive_store, stage_arrival_queue,
                   stat_log, capture_file_name, local_capture_file, landed,
                   archive_start, archived>>

ArchiveNext ==
    \/ LandPackage
    \/ ArchiveMain
    \/ GetLandingFile
    \/ ArchiveGet
    \/ UpdateStatLog
    \/ ArchivePut
    \/ ArchiveDelete
    \/ UpdateStageArrivalQueue
    \/ ArchiveFail

ArchiveInit ==
    /\ Init
    /\ config = Project(CfgTimestamp, CfgTimestamp)

SpecArchive == ArchiveInit /\ [][ArchiveNext]_vars

\* ------------------------------------------------------------------------
\* Properties of the archive daemon
\* ------------------------------------------------------------------------
\* every package name that has landed, with the job id it was made for
LandedJobs ==
    {[name |-> CaptureFileName(d, k), job_id |-> k] :
        d \in DatasetNames, k \in FirstJobId..(FirstJobId + MaxLanded)}

JobIdOf(name) == (CHOOSE l \in LandedJobs : l.name = name).job_id

QueueRows(name) ==
    {i \in 1..Len(stage_arrival_queue) :
        stage_arrival_queue[i].archive_file_name = name}

InArchive(name) ==
    \E b \in archive_store :
        /\ b.name = [folder |-> name.dataset, file |-> name]
        /\ b.content.exists
        /\ b.content.name = name

InLanding(name) == \E b \in landing : b.name = name

\* C8: after archive_capture_file has completed for a package, the package
\* is in the archive blobstore at <dataset>/<name>, is no longer in landing,
\* and the stage arrival queue has exactly one row for it, holding its name
\* and the job id its name was formatted from.
C8_Archived ==
    \A name \in archived :
        /\ InArchive(name)
        /\ ~InLanding(name)
        /\ Cardinality(QueueRows(name)) = 1
        /\ \A i \in QueueRows(name) :
              stage_arrival_queue[i].job_id = JobIdOf(name)

\* C8 witness: the second package of a dataset has been archived.
C8_Witness ==
    \E name \in archived :
        /\ JobIdOf(name) = FirstJobId + 1
        /\ InArchive(name)

\* C9 as stated: whatever step the archive daemon fails at, once it is not
\* working on a package, the package is still in landing or is in the
\* archive with its queue row, and no package has two queue rows.
ArchiveWorksOn(name) ==
    apc \in {"get", "stat", "put", "delete", "queue"} /\ capture_file_name = name

WasLanded(name) ==
    \E d \in DatasetNames :
        \E k \in FirstJobId..(FirstJobId + landed[d] - 1) :
            name = CaptureFileName(d, k)

C9_NeverLostNeverDouble ==
    \A l \in LandedJobs :
        WasLanded(l.name) =>
            /\ Cardinality(QueueRows(l.name)) <= 1
            /\ ~ArchiveWorksOn(l.name) =>
                  \/ InLanding(l.name)
                  \/ InArchive(l.name) /\ QueueRows(l.name) # {}

\* C10 as stated: when the put to the archive blobstore fails, the package
\* is still in landing, the queue and the stat log are as they were before
\* the archive of the package began.
C10_CopyFailureAdvancesNothing ==
    failed_at = "put" =>
        /\ InLanding(capture_file_name)
        /\ stage_arrival_queue = archive_start.stage_arrival_queue
        /\ stat_log = archive_start.stat_log

\* C11: the archive loop ends a poll cycle, with nothing having failed,
\* only when landing holds no package: every landed package is selected.
C11_CycleEndsOnEmptyLanding ==
    [][(apc = "poll" /\ apc' = "idle" /\ crashes' = crashes)
          => landing = {}]_vars

\* ------------------------------------------------------------------------
\* Stage daemon
\* ------------------------------------------------------------------------
\* a row of a captured table: its key columns and its other columns
Row(k, v) == [key |-> k, val |-> v]

\* the files of one table in a capture file: <table>.table (the table
\* object), <table>.schema, <table>.pk (empty or not), <table>#NNNN.json
TableFile(cdc, schema, pk, batches) ==
    [present |-> TRUE, table |-> [cdc |-> cdc, drop_table |-> FALSE],
     schema |-> schema, pk |-> pk, batches |-> batches]

\* a table capture has skipped before it saved the table object
NoTableFile ==
    [present |-> FALSE, table |-> [cdc |-> "", drop_table |-> FALSE],
     schema |-> FALSE, pk |-> FALSE, batches |-> <<>>]

\* capture files the model draws the packages from
PackageFiles ==
    { Project(TableFile("timestamp", TRUE, TRUE,
                        <<{Row(1, 1)}, {Row(2, 1)}>>),
              TableFile("none", TRUE, TRUE, <<{Row(1, 1)}>>)),
      Project(TableFile("timestamp", TRUE, TRUE, <<{Row(1, 2)}>>),
              TableFile("none", FALSE, FALSE, <<>>)),
      Project(TableFile("timestamp", TRUE, FALSE, <<{Row(1, 3)}>>),
              TableFile("Timestamp", TRUE, TRUE, <<{Row(2, 3)}>>)),
      Project(NoTableFile,
              TableFile("bogus", TRUE, TRUE, <<{Row(1, 4), Row(2, 4)}>>)) }

\* names of the packages of the dataset that is archived and staged
StageNames ==
    {CaptureFileName(CaptureDataset, k) :
        k \in FirstJobId..(FirstJobId + MaxLanded - 1)}

\* every table is rebuilt
IsFullReload_Always(file) == TRUE

\* stage_file, lines 242-246: the table is rebuilt, not merged
IsFullReload(file) ==
    \/ file.table.cdc = ""
    \/ Lower(file.table.cdc) = "none"
    \/ ~file.pk

\* all rows of the batch files of a table
RECURSIVE AllRows(_)
AllRows(batches) ==
    IF batches = <<>> THEN {} ELSE Head(batches) \cup AllRows(Tail(batches))

\* a merge that inserts every row of the temp table
merge_InsertsAll(target_rows, temp_rows) == target_rows \cup temp_rows

\* MergeCDC.merge_template: rows of the temp table replace the target rows
\* they match on the key, the others are inserted
merge(target_rows, temp_rows) ==
    {r \in target_rows : \A x \in temp_rows : x.key # r.key} \cup temp_rows

\* position of stage_file after the table file at index i
AfterTableFile(i) == IF i < Len(Tables) THEN "table" ELSE "delete"

\* the table file stage_file is at
StageTable == Tables[stage_table_i]
StageFile == stage_work_folder[StageTable]

\* select_from_stage_arrival_queue with fetchone(): the row inserted first
select_from_stage_arrival_queue(queue) == Head(queue)

\* delete_from_stage_arrival_queue: the rows of the archive file are deleted
delete_from_stage_arrival_queue(queue, name) ==
    SelectSeq(queue, LAMBDA row : row.archive_file_name # name)

\* delete_from_stage_pending_queue: the rows of the archive file are deleted
delete_from_stage_pending_queue(queue, name) == queue \ {name}

StageInit ==
    /\ InitOf({Project(CfgTimestamp, CfgTimestamp)})
    /\ SelectOff /\ UtilOff
    /\ StageIdle
    /\ zip_tables \in [StageNames -> PackageFiles]

\* main, lines 383-395: the schedule starts main, which connects to the
\* target database
StageMain ==
    /\ spc = "idle"
    /\ spc' = "poll"
    /\ UNCHANGED <<utlVars, selVars, capVars, landing, arcVars, zip_tables,
                   target_tables, temp_tables, stage_pending_queue,
                   archive_file_name, stage_work_folder, stage_table_i,
                   stage_batch_number, staged, stage_crashes, stage_before,
                   stage_applied, stage_failed, stage_tries>>

\* process_next_file_to_stage, lines 345-363, with stage_file, lines
\* 169-199: the next queue row is fetched, or the loop of main ends; the
\* capture file is copied from the archive and unzipped (ZipFile raises when
\* the copy has found no blob)
StagePoll ==
    /\ spc = "poll"
    /\ IF stage_arrival_queue = <<>>
       THEN /\ spc' = "idle"
            /\ UNCHANGED <<archive_file_name, stage_work_folder,
                           stage_table_i, stage_before, stage_applied,
                           stage_failed, stage_tries>>
       ELSE LET name ==
                  select_from_stage_arrival_queue(stage_arrival_queue).archive_file_name
            IN  /\ archive_file_name' = name
                /\ stage_applied' = {}
                /\ stage_table_i' = 1
                /\ stage_tries' = IF stage_failed = name
                                  THEN stage_tries + 1 ELSE 1
                /\ stage_before' = IF stage_failed = name
                                   THEN stage_before ELSE target_tables
                /\ IF InArchive(name)
                   THEN /\ stage_work_folder' = zip_tables[name]
                        /\ spc' = "table"
                        /\ UNCHANGED stage_failed
                   ELSE /\ stage_work_folder' = <<>>
                        /\ spc' = "idle"
                        /\ stage_failed' = name
    /\ UNCHANGED <<utlVars, selVars, capVars, landing, arcVars, zip_tables,
                   target_tables, temp_tables, stage_pending_queue,
                   stage_batch_number, staged, stage_crashes>>

\* stage_file, lines 202-256 and 286-301: the next table file; a table
\* without schema file is skipped, a full reload drops and creates the
\* target table, a merge creates the target table if it is missing and
\* drops and creates the temp table
StageTableFile ==
    /\ spc = "table"
    /\ LET t == StageTable
           file == StageFile
           through ==
               /\ spc' = AfterTableFile(stage_table_i)
               /\ stage_table_i' = IF stage_table_i < Len(Tables)
                                   THEN stage_table_i + 1 ELSE stage_table_i
       IN  IF ~file.present
           THEN /\ through
                /\ UNCHANGED <<target_tables, temp_tables, stage_applied>>
           ELSE IF ~file.schema
           THEN /\ through
                /\ stage_applied' = stage_applied \cup {t}
                /\ UNCHANGED <<target_tables, temp_tables>>
           ELSE IF file.table.drop_table
           THEN /\ target_tables' = [target_tables EXCEPT ![t] = NoTable]
                /\ spc' = "delete"
                /\ UNCHANGED <<temp_tables, stage_applied, stage_table_i>>
           ELSE IF IsFullReload(file)
           THEN /\ target_tables' = [target_tables EXCEPT ![t] =
                                        [exists |-> TRUE, rows |-> {}]]
                /\ spc' = "batch"
                /\ UNCHANGED <<temp_tables, stage_applied, stage_table_i>>
           ELSE /\ target_tables' = [target_tables EXCEPT ![t] =
                      IF @.exists THEN @ ELSE [exists |-> TRUE, rows |-> {}]]
                /\ temp_tables' = [temp_tables EXCEPT ![t] =
                                      [exists |-> TRUE, rows |-> {}]]
                /\ spc' = "batch"
                /\ UNCHANGED <<stage_applied, stage_table_i>>
    /\ stage_batch_number' = 0
    /\ UNCHANGED <<utlVars, selVars, capVars, landing, arcVars, zip_tables,
                   stage_pending_queue, archive_file_name, stage_work_folder,
                   staged, stage_crashes, stage_before, stage_failed,
                   stage_tries>>

\* what stage_file has done with the table when its loops are over
StageTableDone ==
    /\ stage_applied' = stage_applied \cup {StageTable}
    /\ spc' = AfterTableFile(stage_table_i)
    /\ stage_table_i' = IF stage_table_i < Len(Tables)
                        THEN stage_table_i + 1 ELSE stage_table_i

\* stage_file, lines 258-284 and 303-329: the rows of the next batch file
\* are inserted into the target table (full reload) or into the temp table
\* (merge); an empty batch file ends the loop of a merge without merge
StageBatch ==
    /\ spc = "batch"
    /\ stage_batch_number < Len(StageFile.batches)
    /\ LET t == StageTable
           rows == StageFile.batches[stage_batch_number + 1]
       IN  IF IsFullReload(StageFile)
           THEN /\ target_tables' = [target_tables EXCEPT ![t].rows = @ \cup rows]
                /\ stage_batch_number' = stage_batch_number + 1
                /\ UNCHANGED <<temp_tables, stage_applied, spc, stage_table_i>>
           ELSE IF rows = {}
           THEN /\ temp_tables' = [temp_tables EXCEPT ![t] = NoTable]
                /\ StageTableDone
                /\ UNCHANGED <<target_tables, stage_batch_number>>
           ELSE /\ temp_tables' = [temp_tables EXCEPT ![t].rows = @ \cup rows]
                /\ stage_batch_number' = stage_batch_number + 1
                /\ UNCHANGED <<target_tables, stage_applied, spc, stage_table_i>>
    /\ UNCHANGED <<utlVars, selVars, capVars, landing, arcVars, zip_tables,
                   stage_pending_queue, archive_file_name, stage_work_folder,
                   staged, stage_crashes, stage_before, stage_failed,
                   stage_tries>>

\* stage_file, lines 330-343: the batch files are through; a merge merges
\* the temp table into the target table and drops the temp table
StageTableEnd ==
    /\ spc = "batch"
    /\ stage_batch_number = Len(StageFile.batches)
    /\ LET t == StageTable
       IN  IF IsFullReload(StageFile)
           THEN UNCHANGED <<target_tables, temp_tables>>
           ELSE /\ target_tables' = [target_tables EXCEPT ![t].rows =
                                        merge(@, temp_tables[t].rows)]
                /\ temp_tables' = [temp_tables EXCEPT ![t] = NoTable]
    /\ StageTableDone
    /\ UNCHANGED <<utlVars, selVars, capVars, landing, arcVars, zip_tables,
                   stage_pending_queue, archive_file_name, stage_work_folder,
                   stage_batch_number, staged, stage_crashes, stage_before,
                   stage_failed, stage_tries>>

\* a delete that posts the staged file's own name to the pending queue
StageDelete_PostsSameJob ==
    /\ spc = "delete"
    /\ stage_arrival_queue' =
          delete_from_stage_arrival_queue(stage_arrival_queue, archive_file_name)
    /\ stage_pending_queue' =
          delete_from_stage_pending_queue(stage_pending_queue, archive_file_name)
          \cup {CaptureFileName(archive_file_name.dataset,
                                ParseInt(archive_file_name.job))}
    /\ staged' = Append(staged, archive_file_name)
    /\ stage_failed' = NoName
    /\ spc' = "poll"
    /\ UNCHANGED <<utlVars, selVars, capVars, landing, archive_store, stat_log, apc,
                   capture_file_name, local_capture_file, landed, crashes,
                   archive_start, failed_at, archived, zip_tables,
                   target_tables, temp_tables, archive_file_name,
                   stage_work_folder, stage_table_i, stage_batch_number,
                   stage_crashes, stage_before, stage_applied, stage_tries>>

\* process_next_file_to_stage, lines 365-381: stage_file has returned; the
\* file is deleted from the arrival and pending queues and the name of the
\* next job of the dataset is posted to the pending queue
StageDelete ==
    /\ spc = "delete"
    /\ stage_arrival_queue' =
          delete_from_stage_arrival_queue(stage_arrival_queue, archive_file_name)
    /\ stage_pending_queue' =
          delete_from_stage_pending_queue(stage_pending_queue, archive_file_name)
          \cup {CaptureFileName(archive_file_name.dataset,
                                ParseInt(archive_file_name.job) + 1)}
    /\ staged' = Append(staged, archive_file_name)
    /\ stage_failed' = NoName
    /\ spc' = "poll"
    /\ UNCHANGED <<utlVars, selVars, capVars, landing, archive_store, stat_log, apc,
                   capture_file_name, local_capture_file, landed, crashes,
                   archive_start, failed_at, archived, zip_tables,
                   target_tables, temp_tables, archive_file_name,
                   stage_work_folder, stage_table_i, stage_batch_number,
                   stage_crashes, stage_before, stage_applied, stage_tries>>

\* a failure that takes the package in work off the arrival queue
StageFail_Dequeues ==
    /\ spc # "idle"
    /\ stage_crashes < MaxStageCrashes
    /\ stage_crashes' = stage_crashes + 1
    /\ stage_failed' = IF spc = "poll" THEN stage_failed ELSE archive_file_name
    /\ spc' = "idle"
    /\ stage_arrival_queue' =
          delete_from_stage_arrival_queue(stage_arrival_queue, archive_file_name)
    /\ UNCHANGED <<utlVars, selVars, capVars, landing, archive_store, stat_log, apc,
                   capture_file_name, local_capture_file, landed, crashes,
                   archive_start, failed_at, archived, zip_tables,
                   target_tables, temp_tables, stage_pending_queue,
                   archive_file_name, stage_work_folder, stage_table_i,
                   stage_batch_number, staged, stage_before, stage_applied,
                   stage_tries>>

\* an exception of a database or blobstore call, or the end of the process,
\* at any point of main (main catches nothing): the daemon ends and is
\* started again
StageFail ==
    /\ spc # "idle"
    /\ stage_crashes < MaxStageCrashes
    /\ stage_crashes' = stage_crashes + 1
    /\ stage_failed' = IF spc = "poll" THEN stage_failed ELSE archive_file_name
    /\ spc' = "idle"
    /\ UNCHANGED <<utlVars, selVars, capVars, landing, arcVars, zip_tables,
                   target_tables, temp_tables, stage_pending_queue,
                   archive_file_name, stage_work_folder, stage_table_i,
                   stage_batch_number, staged, stage_before, stage_applied,
                   stage_tries>>

\* the capture daemon of the dataset uploads its next package
LandDataset == LandPackageOf(CaptureDataset)

StageNext ==
    \/ LandDataset
    \/ ArchiveMain
    \/ GetLandingFile
    \/ ArchiveGet
    \/ UpdateStatLog
    \/ ArchivePut
    \/ ArchiveDelete
    \/ UpdateStageArrivalQueue
    \/ StageMain
    \/ StagePoll
    \/ StageTableFile
    \/ StageBatch
    \/ StageTableEnd
    \/ StageDelete
    \/ StageFail

SpecStage == StageInit /\ [][StageNext]_vars

\* table files of the package the stage daemon has unzipped
PackageTables == {t \in TableNames : stage_work_folder[t].present}

\* the stage daemon is applying the package it has fetched
Applying == spc \in {"table", "batch", "delete"}

\* C12: the arrival-queue rows of a package are deleted only after every
\* table of the package has been applied; a failure while a package is
\* applied removes no row, and the next poll begins the same package again
\* at its first table.
C12_EntryDeletedAfterAllTables ==
    [][/\ \A name \in StageNames :
            (QueueRows(name) # {} /\ QueueRows(name)' = {})
               => /\ name = archive_file_name
                  /\ stage_applied = PackageTables
       /\ stage_crashes' > stage_crashes
            => \A name \in StageNames :
                  QueueRows(name) # {} => QueueRows(name)' # {}
       /\ (spc = "poll" /\ spc' = "table" /\ stage_failed # NoName)
            => /\ archive_file_name' = stage_failed
               /\ stage_applied' = {}
               /\ stage_table_i' = 1]_vars

\* C12 witness: a package whose application had failed at its second table
\* has been applied again and its queue row is deleted.
C12_Witness ==
    /\ Len(staged) > 0
    /\ stage_failed = NoName
    /\ stage_tries > 1
    /\ stage_applied = {"t1", "t2"}
    /\ QueueRows(archive_file_name) = {}

\* the rows of a table after the rows of a package are upserted into it
UpsertOnce(before_rows, package_rows) ==
    package_rows \cup
    {r \in before_rows : r.key \notin {x.key : x \in package_rows}}

\* a target table after one successful application of a table file
OneApplication(before, file) ==
    IF ~file.present \/ ~file.schema THEN before
    ELSE IF file.table.drop_table THEN NoTable
    ELSE IF file.table.cdc = "" \/ Lower(file.table.cdc) = "none" \/ ~file.pk
    THEN [exists |-> TRUE, rows |-> AllRows(file.batches)]
    ELSE [exists |-> TRUE,
          rows |-> UpsertOnce(before.rows, AllRows(file.batches))]

\* C13: when stage_file returns for a package, after any number of failed
\* applications of it, every target table is as one successful application
\* leaves it: full-reload tables hold the package's rows, merge tables the
\* upsert of the package's rows into what they held before the package.
C13_ReapplicationIsOneApplication ==
    spc = "delete" =>
        \A t \in TableNames :
            target_tables[t] = OneApplication(stage_before[t],
                                              stage_work_folder[t])

\* C13 witness: the second application of a package has returned, with a
\* merge into a target table that held rows before the package.
C13_Witness ==
    /\ spc = "delete"
    /\ stage_tries > 1
    /\ ~IsFullReload(stage_work_folder["t1"])
    /\ stage_before["t1"].rows # {}
    /\ target_tables["t1"].rows # stage_before["t1"].rows

\* job ids of the packages stage has applied, then of those on the queue
StagedThenQueued ==
    [i \in 1..Len(staged) |-> ParseInt(staged[i].job)]
    \o [i \in 1..Len(stage_arrival_queue) |-> stage_arrival_queue[i].job_id]

\* C14: the packages of the dataset come onto the arrival queue in
\* increasing job-id order and stage applies them in that order: the job
\* ids staged, followed by those queued, increase, and the package stage is
\* applying is the one with the smallest job id on the queue.
C14_StagedInJobOrder ==
    /\ \A i, j \in 1..Len(StagedThenQueued) :
          i < j => StagedThenQueued[i] < StagedThenQueued[j]
    /\ Applying =>
          \A i \in 1..Len(stage_arrival_queue) :
              ParseInt(archive_file_name.job) <= stage_arrival_queue[i].job_id

\* C14 witness: two packages of the dataset have been archived and staged.
C14_Witness ==
    /\ Len(staged) = 2
    /\ staged[1] # staged[2]

\* a step of stage_file on the table at turn, with no failure
StagesTable(from) ==
    /\ spc = from
    /\ stage_crashes' = stage_crashes
    /\ <<spc, stage_table_i>>' # <<spc, stage_table_i>>

\* C16 as stated: a cdc=none table is always dropped, created and loaded
\* with the package's rows; a cdc=timestamp table whose target table exists
\* is never dropped, its rows are loaded into the temp table and merged.
C16_NoneReloadsTimestampMerges ==
    [][/\ (StagesTable("table") /\ StageFile.present)
            => /\ Lower(StageFile.table.cdc) = "none"
                    => /\ target_tables'[StageTable] =
                              [exists |-> TRUE, rows |-> {}]
                       /\ spc' = "batch"
               /\ (/\ Lower(StageFile.table.cdc) = "timestamp"
                   /\ target_tables[StageTable].exists)
                    => /\ target_tables'[StageTable] = target_tables[StageTable]
                       /\ temp_tables'[StageTable] =
                              [exists |-> TRUE, rows |-> {}]
                       /\ spc' = "batch"
       /\ (StagesTable("batch") /\ spc' # "batch")
            => /\ Lower(StageFile.table.cdc) = "none"
                    => target_tables'[StageTable].rows =
                          AllRows(StageFile.batches)
               /\ Lower(StageFile.table.cdc) = "timestamp"
                    => target_tables'[StageTable].rows =
                          UpsertOnce(target_tables[StageTable].rows,
                                     AllRows(StageFile.batches))]_vars

\* C16, amended: the same of a table whose schema file is in the package
\* and, for cdc=timestamp, whose key file in the package is not empty.
C16_WithSchemaAndKey ==
    [][/\ (StagesTable("table") /\ StageFile.present /\ StageFile.schema)
            => /\ Lower(StageFile.table.cdc) = "none"
                    => /\ target_tables'[StageTable] =
                              [exists |-> TRUE, rows |-> {}]
                       /\ spc' = "batch"
               /\ (/\ Lower(StageFile.table.cdc) = "timestamp"
                   /\ StageFile.pk
                   /\ target_tables[StageTable].exists)
                    => /\ target_tables'[StageTable] = target_tables[StageTable]
                       /\ temp_tables'[StageTable] =
                              [exists |-> TRUE, rows |-> {}]
                       /\ spc' = "batch"
       /\ (StagesTable("batch") /\ spc' # "batch")
            => /\ Lower(StageFile.table.cdc) = "none"
                    => target_tables'[StageTable].rows =
                          AllRows(StageFile.batches)
               /\ (Lower(StageFile.table.cdc) = "timestamp" /\ StageFile.pk)
                    => target_tables'[StageTable].rows =
                          UpsertOnce(target_tables[StageTable].rows,
                                     AllRows(StageFile.batches))]_vars

\* C16 witness: the second package has been staged; its cdc=timestamp table
\* was merged into the rows of the first package, whose cdc=none table was
\* loaded with the package's rows.
C16_Witness ==
    /\ Len(staged) = 2
    /\ zip_tables[staged[2]]["t1"].table.cdc = "timestamp"
    /\ zip_tables[staged[2]]["t1"].pk
    /\ target_tables["t1"].rows = {Row(1, 2), Row(2, 1)}
    /\ zip_tables[staged[1]]["t2"].table.cdc = "none"
    /\ target_tables["t2"].rows = {Row(1, 1)}

\* ------------------------------------------------------------------------
\* Capture, archive and stage of one dataset, with no failure
\* ------------------------------------------------------------------------
\* names of the packages the capture jobs of the dataset can upload
PipelineNames ==
    {CaptureFileName(CaptureDataset, k) :
        k \in FirstJobId..(FirstJobId + MaxJobs)}

\* the table files of every package: a merge table; the ignored table has
\* no files
PipelineFiles ==
    Project(TableFile("timestamp", TRUE, TRUE, <<{Row(1, 1)}>>), NoTableFile)

PipelineInit ==
    /\ InitOf({Project(CfgTimestamp, CfgIgnored)})
    /\ SelectOff /\ UtilOff
    /\ StageIdle
    /\ zip_tables = [name \in PipelineNames |-> PipelineFiles]

PipelineNext ==
    \/ AdvanceClock
    \/ LoadJob
    \/ Snapshot
    \/ SkipTable
    \/ ExecuteSelect
    \/ FetchBatch
    \/ ProcessTableEnd
    \/ CompressWorkFolder
    \/ UploadToBlobstore
    \/ FinalMetrics
    \/ SaveJobHistory
    \/ SaveRecoveryStateFile
    \/ JobDone
    \/ ArchiveMain
    \/ GetLandingFile
    \/ ArchiveGet
    \/ UpdateStatLog
    \/ ArchivePut
    \/ ArchiveDelete
    \/ UpdateStageArrivalQueue
    \/ StageMain
    \/ StagePoll
    \/ StageTableFile
    \/ StageBatch
    \/ StageTableEnd
    \/ StageDelete

SpecPipeline == PipelineInit /\ [][PipelineNext]_vars

\* names of the packages capture has uploaded: in landing or moved on
UploadedNames ==
    {b.name : b \in landing} \cup {b.content.name : b \in archive_store}

\* C15: with no failure, the k-th package capture uploads, the k-th row
\* archive queues and the k-th package stage applies each have job id k:
\* the job ids are 1, 2, 3, ... with none repeated, skipped or out of order.
C15_JobIdsCountUp ==
    [][/\ (transferred' /\ ~transferred)
            => /\ job_id = FirstJobId + Cardinality(UploadedNames)
               /\ UploadedNames' =
                     UploadedNames \cup {CaptureFileName(dataset_name, job_id)}
       /\ Len(stage_arrival_queue') > Len(stage_arrival_queue)
            => stage_arrival_queue'[Len(stage_arrival_queue')].job_id =
                  FirstJobId + Len(staged) + Len(stage_arrival_queue)
       /\ Len(staged') > Len(staged)
            => ParseInt(staged'[Len(staged')].job) =
                  FirstJobId + Len(staged)]_vars

\* C15 witness: two capture jobs have uploaded, and both packages have been
\* archived and staged.
C15_Witness ==
    /\ jobs = 2
    /\ Len(staged) = 2
    /\ staged[2] = CaptureFileName(CaptureDataset, FirstJobId + 1)
    /\ stage_pending_queue = {CaptureFileName(CaptureDataset, FirstJobId + 2)}

\* ------------------------------------------------------------------------
\* The select of one table: SelectCDC.select applied to a table object, a
\* window and the rows of the source table
\* ------------------------------------------------------------------------
MaxSelTime == 2
MaxSelRows == 2
MaxSelJobs == 2

\* a table section with cdc = sequence and no timestamp column
CfgSequenceOnly ==
    [cdc |-> "sequence", timestamp |-> FALSE, first_timestamp |-> "",
     first_sequence |-> 0, ignore_table |-> FALSE, drop_table |-> FALSE,
     primary_key |-> TRUE, optional_table |-> FALSE]

\* table sections the select is built for
SelectTables == {CfgTimestamp, CfgSequence, CfgSequenceOnly, CfgNone, CfgBogus}

\* rows a source table can hold: a timestamp column and a sequence column
SourceRows == [ts : 0..MaxSelTime, seq : 0..MaxSelTime]

\* SelectCDC.timestamp_where_template: the window condition on a row
timestamp_where(row, cur_ts, last_ts) ==
    row.ts >= last_ts /\ row.ts < cur_ts

\* SelectCDC.timestamp_logic: with no timestamp column the select asks
\* Database.timestamp_literal for the load timestamp
CallsTimestampLiteral(obj) == ~obj.timestamp

\* SelectCDC.select with cursor.execute: the rows of the select (with no
\* timestamp column the where condition is empty)
select(obj, rows, cur_ts, last_ts) ==
    IF CallsTimestampLiteral(obj) THEN rows
    ELSE {r \in rows : timestamp_where(r, cur_ts, last_ts)}

SelectInit ==
    /\ InitOf({Project(CfgTimestamp, CfgTimestamp)})
    /\ StageOff /\ UtilOff
    /\ source_table \in {r \in SUBSET SourceRows : Cardinality(r) <= MaxSelRows}
    /\ \E c \in SelectTables, pk_columns \in BOOLEAN :
          sel_table = NormalizeCdc(c, pk_columns)
    /\ sel_history = [last_timestamp |-> 0, last_sequence |-> 0]
    /\ sel_window \in [current_timestamp : 1..MaxSelTime,
                       current_sequence : 0..MaxSelTime]
    /\ sel_job = 1
    /\ sel_pc = "build"
    /\ sel_rows = {}

\* process_table, lines 284-299: the select is built and executed
SelectBuild ==
    /\ sel_pc = "build"
    /\ ~CallsTimestampLiteral(sel_table)
    /\ sel_rows' = select(sel_table, source_table,
                          sel_window.current_timestamp,
                          sel_history.last_timestamp)
    /\ sel_pc' = "done"
    /\ UNCHANGED <<utlVars, stgVars, capVars, landing, arcVars, source_table, sel_table,
                   sel_history, sel_window, sel_job>>

\* Database.timestamp_literal raises NameError: no select is built
SelectRaises ==
    /\ sel_pc = "build"
    /\ CallsTimestampLiteral(sel_table)
    /\ sel_pc' = "raised"
    /\ UNCHANGED <<utlVars, stgVars, capVars, landing, arcVars, source_table, sel_table,
                   sel_history, sel_window, sel_job, sel_rows>>

\* process_table, lines 331-333, and the next job's snapshot: the window
\* of the next job starts where this one ended
SelectNextJob ==
    /\ sel_pc = "done"
    /\ sel_job < MaxSelJobs
    /\ sel_job' = sel_job + 1
    /\ sel_history' = CompletedHistory(sel_history,
                                       sel_window.current_timestamp,
                                       sel_window.current_sequence)
    /\ sel_window' \in [current_timestamp :
                            sel_window.current_timestamp..(MaxSelTime + 1),
                        current_sequence : 0..MaxSelTime]
    /\ sel_rows' = {}
    /\ sel_pc' = "build"
    /\ UNCHANGED <<utlVars, stgVars, capVars, landing, arcVars, source_table, sel_table>>

SelectNext == SelectBuild \/ SelectRaises \/ SelectNextJob

SpecSelect == SelectInit /\ [][SelectNext]_vars

\* rows whose sequence value is in the job's sequence range
SequenceRange ==
    {r \in source_table : /\ sel_history.last_sequence <= r.seq
                          /\ r.seq < sel_window.current_sequence}

\* C19: the rows a job extracts from a sequence-strategy table are exactly
\* those whose sequence value s has last_sequence <= s < current_sequence.
C19_SequenceWindow ==
    (sel_pc = "done" /\ sel_table.cdc = "sequence") => sel_rows = SequenceRange

\* C20: for a table with no cdc strategy and no timestamp column building
\* the select succeeds, and the select hands out every row of the table.
C20_NoCdcFullPull ==
    (sel_table.cdc = "" /\ ~sel_table.timestamp)
        => /\ sel_pc # "raised"
           /\ sel_pc = "done" => sel_rows = source_table

\* ------------------------------------------------------------------------
\* The watermark store: damaged state files and the drop-table utility
\* ------------------------------------------------------------------------
\* what a state file that save_jsonpickle did not write can hold: a file
\* open() cannot read, text that is not JSON, JSON of an object without
\* job_id and tables
DamagedContents == {"unreadable", "not_json", "no_fields"}

\* JobHistory.load on a file that exists: load_jsonpickle opens and decodes
\* it, load reads obj.job_id and obj.tables; none of the three is guarded
LoadRaises(file, content) == file.exists /\ content \in DamagedContents

\* main, lines 413-416 on a damaged state file: load raises, main logs the
\* exception and raises it again, the process ends
LoadJobRaises ==
    /\ pc = "idle"
    /\ jobs < MaxJobs
    /\ LoadRaises(capture_job, capture_job_content)
    /\ jobs' = jobs + 1
    /\ Idle
    /\ table_object' = config
    /\ prev_job' = [aborted |-> TRUE, job_id |-> job_id,
                    transferred |-> FALSE, saved |-> FALSE,
                    starts |-> NoStarts]
    /\ UNCHANGED <<utlVars, selVars, stgVars, arcVars, clock, adv, config,
                   batch_size, dataset_name, capture_job, last_job_log,
                   recovery, job_start_file, last_extracted, last_saved,
                   last_put, landing>>

\* the state file is damaged while no job runs (disk fault, partial copy,
\* an edit by hand)
DamageStateFile ==
    /\ pc = "idle"
    /\ capture_job.exists
    /\ capture_job_content = "jsonpickle"
    /\ capture_job_content' \in DamagedContents
    /\ UNCHANGED <<capVars, landing, arcVars, selVars, stgVars, drops,
                   drop_argv, auxVars>>

\* a delete that empties the table map
DeleteEntry_ClearsAll(jh, t) == [jh EXCEPT !.tables = <<>>]

\* del job_history.tables[table_name]
DeleteEntry(jh, t) ==
    [jh EXCEPT !.tables = [u \in DOMAIN jh.tables \ {t} |-> jh.tables[u]]]

\* a utility that saves the store whether or not it holds the table
DropTableUtility_AlwaysSaves ==
    /\ drops < MaxDrops
    /\ ~LoadRaises(capture_job, capture_job_content)
    /\ \E t \in TableNames :
         /\ drop_argv' = t
         /\ capture_job' = JobHistorySave(
                               DeleteEntry(JobHistoryLoad(capture_job), t), TRUE)
         /\ target_tables' = [target_tables EXCEPT ![t] = NoTable]
    /\ drops' = drops + 1
    /\ UNCHANGED <<capture_job_content, auxVars, selVars, landing, arcVars, zip_tables,
                   temp_tables, stage_pending_queue, spc, archive_file_name,
                   stage_work_folder, stage_table_i, stage_batch_number,
                   staged, stage_crashes, stage_before, stage_applied,
                   stage_failed, stage_tries, clock, adv, jobs, config,
                   batch_size, dataset_name, last_job_log, job_history,
                   job_id, table_object, notransfer, pc, table_i,
                   current_timestamp, current_sequence, last_timestamp,
                   cursor, batch_number, row_count, work_folder, events,
                   zip_file, recovery, job_start_file, transferred, phases,
                   job_windows, job_extracted, select_rows, prev_job,
                   last_extracted, last_saved, last_put>>

\* DropTableUtility.main for <dataset>.<table> of the capture dataset: load
\* capture.job, delete the table's entry and save with is_maintenance, then
\* drop the table of the target database
DropTableUtility ==
    /\ drops < MaxDrops
    /\ ~LoadRaises(capture_job, capture_job_content)
    /\ \E t \in TableNames :
         /\ drop_argv' = t
         /\ IF t \notin DOMAIN JobHistoryLoad(capture_job).tables
            THEN UNCHANGED capture_job
            ELSE capture_job' = JobHistorySave(
                                   DeleteEntry(JobHistoryLoad(capture_job), t),
                                   TRUE)
         /\ target_tables' = [target_tables EXCEPT ![t] = NoTable]
    /\ drops' = drops + 1
    /\ UNCHANGED <<capture_job_content, auxVars, selVars, landing, arcVars, zip_tables,
                   temp_tables, stage_pending_queue, spc, archive_file_name,
                   stage_work_folder, stage_table_i, stage_batch_number,
                   staged, stage_crashes, stage_before, stage_applied,
                   stage_failed, stage_tries, clock, adv, jobs, config,
                   batch_size, dataset_name, last_job_log, job_history,
                   job_id, table_object, notransfer, pc, table_i,
                   current_timestamp, current_sequence, last_timestamp,
                   cursor, batch_number, row_count, work_folder, events,
                   zip_file, recovery, job_start_file, transferred, phases,
                   job_windows, job_extracted, select_rows, prev_job,
                   last_extracted, last_saved, last_put>>

\* DropTableUtility.main on a damaged state file: load raises at line 148
DropTableRaises ==
    /\ drops < MaxDrops
    /\ LoadRaises(capture_job, capture_job_content)
    /\ drop_argv' \in TableNames
    /\ drops' = drops + 1
    /\ UNCHANGED <<capVars, landing, arcVars, selVars, stgVars,
                   capture_job_content, auxVars>>

\* project of the store's runs: two timestamp tables
StoreConfigs == { Project(CfgTimestamp, CfgTimestamp) }

StoreInit == InitOf(StoreConfigs) /\ SelectOff /\ UtilOff /\ StageOff

StoreNext ==
    \/ LoadJob
    \/ LoadJobRaises
    \/ Snapshot
    \/ SkipTable
    \/ ExecuteSelect
    \/ FetchBatch
    \/ ProcessTableEnd
    \/ CompressWorkFolder
    \/ UploadToBlobstore
    \/ FinalMetrics
    \/ SaveJobHistory
    \/ SaveRecoveryStateFile
    \/ JobDone
    \/ DamageStateFile
    \/ DropTableUtility
    \/ DropTableRaises

SpecStore == StoreInit /\ [][StoreNext]_vars

\* a job begins: main is at its first statement and the job count goes up
JobBegins == pc = "idle" /\ jobs' = jobs + 1

\* C21: whenever a job begins on a state file that is absent or damaged,
\* load yields job_id 1 with an empty table map and the job goes on.
C21_LoadNeverFails ==
    [][(JobBegins /\ (~capture_job.exists
                        \/ capture_job_content \in DamagedContents))
       => (pc' = "connect"
           /\ job_history' = [job_id |-> FirstJobId, tables |-> <<>>])]_vars

\* the store's file as the claims expect it after the utility has dropped t
WithoutEntry(file, t) ==
    [exists |-> TRUE, job_id |-> file.job_id,
     tables |-> [u \in DOMAIN file.tables \ {t} |-> file.tables[u]]]

\* a step of the drop-table utility that got past load
DropStep == drops' = drops + 1 /\ ~LoadRaises(capture_job, capture_job_content)

\* a step in which the capture job's save() wrote the store
CaptureSaveStep == pc = "save" /\ pc' = "recovery" /\ ~notransfer

\* C22: a maintenance save keeps job_id and a job's save adds exactly 1; the
\* drop-table utility removes exactly the named table's entry and leaves
\* job_id and every other table's cursor as they were.
C22_SaveAndDropFrame ==
    [][/\ DropStep =>
            IF capture_job.exists /\ drop_argv' \in DOMAIN capture_job.tables
            THEN capture_job' = WithoutEntry(capture_job, drop_argv')
            ELSE capture_job' = capture_job
       /\ CaptureSaveStep =>
            /\ capture_job'.job_id = job_history.job_id + 1
            /\ capture_job'.tables = job_history.tables]_vars

\* the utility has dropped one entry of a store of two tables that a job
\* had saved
C22_Witness ==
    /\ drops > 0
    /\ capture_job.exists
    /\ capture_job.job_id > FirstJobId
    /\ Cardinality(DOMAIN capture_job.tables) = 1
    /\ drop_argv \notin DOMAIN capture_job.tables

\* how often the running job has saved the store
SavesOfJob == Cardinality({i \in 1..Len(phases) : phases[i] = "ADVANCE_WATERMARK"})

\* C23 as stated: the store is written by the capture job's save only.
C23_OnlyCaptureWrites ==
    [][capture_job' # capture_job => CaptureSaveStep]_vars

\* C23, amended: the store is written by the capture job (once per
\* successful job that transfers its package, after every table of the job)
\* and by the drop-table utility when it removes a table's entry, by
\* nothing else.
C23_CaptureAndDropWrite ==
    /\ [][capture_job' # capture_job =>
            \/ /\ CaptureSaveStep
               /\ table_i = Len(Tables)
               /\ cursor = 0
               /\ SavesOfJob = 0
            \/ /\ DropStep
               /\ capture_job.exists
               /\ drop_argv' \in DOMAIN capture_job.tables]_vars
    /\ [](pc = "done" => SavesOfJob = IF notransfer THEN 0 ELSE 1)

\* a job has saved the store after the utility had written it
C23_Witness ==
    /\ pc = "done"
    /\ SavesOfJob = 1
    /\ drops > 0
    /\ drop_argv \in DOMAIN capture_job.tables
    /\ capture_job.job_id > FirstJobId + 1

\* C30: once stage has applied the package with job id k of dataset D, the
\* package has no row on the arrival queue and the pending queue holds the
\* name of D's package k+1, its job id written with nine digits.
C30_NextPackagePending ==
    [][\A name \in StageNames :
          staged' = Append(staged, name) =>
              /\ QueueRows(name)' = {}
              /\ [dataset |-> name.dataset,
                  job |-> ZeroPad(JobIdOf(name) + 1, JobIdWidth)]
                     \in stage_pending_queue']_vars

\* stage has applied the second package of the dataset: the pending queue
\* holds the name of the third and no longer that of the second
C30_Witness ==
    /\ Len(staged) = 2
    /\ QueueRows(staged[2]) = {}
    /\ stage_pending_queue =
          {[dataset |-> staged[2].dataset,
            job |-> ZeroPad(JobIdOf(staged[2]) + 1, JobIdWidth)]}
    /\ staged[2] \notin stage_pending_queue

\* sequence tables the running job has extracted
SequenceTablesOfJob == {t \in job_extracted : config[t].cdc = "sequence"}

\* C29: the sequence tables of a job share one ceiling, the single value
\* fetched for the job: each records the same last_sequence.
C29_OneSequencePerJob ==
    \A t1 \in SequenceTablesOfJob, t2 \in SequenceTablesOfJob :
        job_history.tables[t1].last_sequence
            = job_history.tables[t2].last_sequence

\* ------------------------------------------------------------------------
\* Daemon.run: the scheduling loop around main
\* ------------------------------------------------------------------------
DaemonTypes == {"capture", "archive", "stage"}

Options == [onetime : BOOLEAN, nowait : BOOLEAN, scheduled_onetime : BOOLEAN]

\* positions of run at which main is running
InMain == {"main_onetime", "main_nowait", "main"}

\* the other processes and stores stay as they are
DaemonOnly ==
    /\ InitOf({Project(CfgTimestamp, CfgTimestamp)})
    /\ SelectOff
    /\ StoreOff
    /\ TableFileOff
    /\ RelandOff
    /\ ScheduleOff
    /\ IgnoreOff
    /\ MergeOff
    /\ BlobOff
    /\ MutexOff
    /\ StageOff

DaemonInit ==
    /\ DaemonOnly
    /\ dmn_type \in DaemonTypes
    /\ dmn_option \in Options
    /\ dmn_pc = "start"
    /\ dmn_runs = 0

\* run, lines 99-122: banner, logging, setup, start; then the branch on
\* the options onetime and nowait
DaemonStart ==
    /\ dmn_pc = "start"
    /\ dmn_pc' = IF dmn_option.onetime THEN "main_onetime"
                 ELSE IF dmn_option.nowait THEN "main_nowait"
                 ELSE "wait"
    /\ UNCHANGED <<coreVars, storeVars, tblVars, relanded, schVars, ignVars, mrgVars, blbVars, mtxVars, dmn_type, dmn_option, dmn_runs>>

\* run, lines 133-136: schedule.wait() returns True (Schedule.is_stopped is
\* always False, so wait never returns False) and main is called
ScheduleWait ==
    /\ dmn_pc = "wait"
    /\ dmn_runs < MaxRuns
    /\ dmn_pc' = "main"
    /\ UNCHANGED <<coreVars, storeVars, tblVars, relanded, schVars, ignVars, mrgVars, blbVars, mtxVars, dmn_type, dmn_option, dmn_runs>>

\* main raises: CaptureDaemon.main and ArchiveDaemon.main log the exception
\* and raise it again, StageDaemon.main has no handler; run calls main
\* outside any try statement, so the exception leaves run and the script:
\* the process ends, cleanup is not called
MainRaises ==
    /\ dmn_pc \in InMain
    /\ dmn_runs' = dmn_runs + 1
    /\ dmn_pc' = "died"
    /\ UNCHANGED <<coreVars, storeVars, tblVars, relanded, schVars, ignVars, mrgVars, blbVars, mtxVars, dmn_type, dmn_option>>

\* main returns: to cleanup after a one-time run, to the schedule otherwise
MainReturns ==
    /\ dmn_pc \in InMain
    /\ dmn_runs' = dmn_runs + 1
    /\ dmn_pc' = IF dmn_pc = "main_onetime" THEN "cleanup"
                 ELSE IF dmn_pc = "main" /\ dmn_option.scheduled_onetime
                 THEN "cleanup"
                 ELSE "wait"
    /\ UNCHANGED <<coreVars, storeVars, tblVars, relanded, schVars, ignVars, mrgVars, blbVars, mtxVars, dmn_type, dmn_option>>

\* run, line 145: cleanup, then run returns and the script ends
DaemonCleanup ==
    /\ dmn_pc = "cleanup"
    /\ dmn_pc' = "exited"
    /\ UNCHANGED <<coreVars, storeVars, tblVars, relanded, schVars, ignVars, mrgVars, blbVars, mtxVars, dmn_type, dmn_option, dmn_runs>>

DaemonNext ==
    \/ DaemonStart
    \/ ScheduleWait
    \/ MainRaises
    \/ MainReturns
    \/ DaemonCleanup

SpecDaemon == DaemonInit /\ [][DaemonNext]_vars

\* C24: when main of a daemon that follows its schedule raises, only the
\* poll cycle ends: the process keeps running and waits for the schedule.
C24_DaemonSurvivesException ==
    [][(dmn_pc \in InMain /\ dmn_pc' \notin InMain /\ ~dmn_option.onetime
          /\ ~(dmn_pc = "main" /\ dmn_option.scheduled_onetime))
       => dmn_pc' = "wait"]_vars

\* ------------------------------------------------------------------------
\* MergeCDC: the merge statement of a table
\* ------------------------------------------------------------------------
\* column names of the tables merged (names without dots and quotes)
ColumnNames == {"col1", "col2", "col3", "udp_jobid"}

\* sequences of at most n different elements of S, none empty
DistinctSeqs(S, n) ==
    {q \in UNION {[1..k -> S] : k \in 1..n} :
        \A i, j \in 1..Len(q) : i # j => q[i] # q[j]}

\* stage_file, line 232: the definitions "udp_jobid int" and
\* " udp_timestamp datetime2"
ExtendedDefinitions ==
    << [name |-> "udp_jobid", type |-> "int"],
       [name |-> "udp_timestamp", type |-> "datetime2"] >>

\* column_definition.split()[0]
DefinitionName(definition) == definition.name

\* add_alias: "<alias>"."<column>"
add_alias(column_name, table_alias) == <<table_alias, column_name>>

\* an __init__ that appends every extended column
ExtendColumns_Always(column_names, definitions) ==
    column_names \o [i \in 1..Len(definitions) |-> DefinitionName(definitions[i])]

\* MergeCDC.__init__, lines 122-127: the extended definitions' column names
\* are appended to table.column_names, each if it is not in the list
RECURSIVE ExtendColumns(_, _)
ExtendColumns(column_names, definitions) ==
    IF definitions = <<>> THEN column_names
    ELSE LET column_name == DefinitionName(Head(definitions))
         IN  ExtendColumns(IF column_name \in Range(column_names)
                           THEN column_names
                           ELSE Append(column_names, column_name),
                           Tail(definitions))

\* MergeCDC.column_names: the quoted names, in the table's order
column_names(table_columns) == table_columns

\* MergeCDC.source_column_names: the names with alias s
source_column_names(table_columns) ==
    [i \in 1..Len(table_columns) |-> add_alias(table_columns[i], "s")]

\* MergeCDC.column_assignments: one assignment "t"."c" = "s"."c" for every
\* column of table.column_names
column_assignments(table_columns) ==
    [i \in 1..Len(table_columns) |->
        [target |-> add_alias(table_columns[i], "t"),
         source |-> add_alias(table_columns[i], "s")]]

\* MergeCDC.match_condition: "t"."k"="s"."k" for every key column, joined
\* with ' and '
match_condition(nk) ==
    [i \in 1..Len(nk) |->
        [target |-> add_alias(nk[i], "t"), source |-> add_alias(nk[i], "s")]]

\* MergeCDC.merge: the parts the template is expanded with
MergeSql(table_columns, nk) ==
    [match_condition |-> match_condition(nk),
     column_assignments |-> column_assignments(table_columns),
     column_names |-> column_names(table_columns),
     source_column_names |-> source_column_names(table_columns)]

MergeOnly ==
    /\ InitOf({Project(CfgTimestamp, CfgTimestamp)})
    /\ SelectOff
    /\ StoreOff
    /\ TableFileOff
    /\ RelandOff
    /\ ScheduleOff
    /\ IgnoreOff
    /\ DaemonOff
    /\ BlobOff
    /\ MutexOff
    /\ StageOff

\* a table object with its columns, a key of its columns, with or without
\* extended definitions
MergeInit ==
    /\ MergeOnly
    /\ mrg_pc = "new"
    /\ mrg_column_names \in DistinctSeqs(ColumnNames, MaxColumns)
    /\ mrg_extended \in {<<>>, ExtendedDefinitions}
    /\ mrg_nk \in DistinctSeqs(Range(mrg_column_names), MaxKey)
    /\ mrg_sql = NoSql
    /\ mrg_before = mrg_column_names

\* MergeCDC(table_object, extended_definitions)
MergeCDCInit ==
    /\ mrg_pc = "new"
    /\ mrg_column_names' = ExtendColumns(mrg_column_names, mrg_extended)
    /\ mrg_pc' = "init"
    /\ UNCHANGED <<coreVars, storeVars, tblVars, relanded, schVars, ignVars, dmnVars, blbVars, mtxVars, mrg_extended, mrg_nk,
                   mrg_sql, mrg_before>>

\* merge_cdc.merge(dataset_name, table_pk)
MergeCDCMerge ==
    /\ mrg_pc = "init"
    /\ mrg_sql' = MergeSql(mrg_column_names, mrg_nk)
    /\ mrg_pc' = "merged"
    /\ UNCHANGED <<coreVars, storeVars, tblVars, relanded, schVars, ignVars, dmnVars, blbVars, mtxVars, mrg_column_names,
                   mrg_extended, mrg_nk, mrg_before>>

MergeNext ==
    \/ MergeCDCInit
    \/ MergeCDCMerge

SpecMerge == MergeInit /\ [][MergeNext]_vars

\* "t"."c"="s"."c"
TEqualsS(c) == [target |-> <<"t", c>>, source |-> <<"s", c>>]

\* how many assignments of the UPDATE SET list assign column c
AssignmentsOf(c) ==
    Cardinality({i \in 1..Len(mrg_sql.column_assignments) :
                    mrg_sql.column_assignments[i] = TEqualsS(c)})

\* the column set C: the table's columns, followed by the extended columns
\* the table does not have
ExtendedColumnSet ==
    mrg_before \o
    SelectSeq([i \in 1..Len(mrg_extended) |-> mrg_extended[i].name],
              LAMBDA n : n \notin Range(mrg_before))

\* the match condition, the INSERT lists and the column set are as claimed
MatchAndInsertAsClaimed ==
    /\ mrg_sql.match_condition = [i \in 1..Len(mrg_nk) |-> TEqualsS(mrg_nk[i])]
    /\ mrg_column_names = ExtendedColumnSet
    /\ mrg_sql.column_names = ExtendedColumnSet
    /\ mrg_sql.source_column_names =
          [i \in 1..Len(ExtendedColumnSet) |-> <<"s", ExtendedColumnSet[i]>>]
    /\ Len(mrg_sql.column_assignments) =
          Cardinality({mrg_sql.column_assignments[i] :
                          i \in 1..Len(mrg_sql.column_assignments)})

\* C25 as stated: the match condition has "t"."k"="s"."k" for every key
\* column, UPDATE SET assigns exactly the columns that are not key columns,
\* each once, INSERT lists every column, and extended columns are added
\* only if absent.
C25_UpdateSetsNonKeyColumns ==
    mrg_pc = "merged" =>
        /\ MatchAndInsertAsClaimed
        /\ \A c \in Range(ExtendedColumnSet) \cup ColumnNames :
              AssignmentsOf(c) =
                  IF c \in Range(ExtendedColumnSet) \ Range(mrg_nk)
                  THEN 1 ELSE 0

\* C25, amended: as stated, but UPDATE SET assigns every column of the
\* column set, key columns included, each exactly once.
C25_UpdateSetsEveryColumn ==
    mrg_pc = "merged" =>
        /\ MatchAndInsertAsClaimed
        /\ \A c \in Range(ExtendedColumnSet) \cup ColumnNames :
              AssignmentsOf(c) =
                  IF c \in Range(ExtendedColumnSet) THEN 1 ELSE 0

\* a statement for a key of two columns over a table that has one of the
\* two extended columns already
C25_Witness ==
    /\ mrg_pc = "merged"
    /\ Len(mrg_nk) = 2
    /\ mrg_extended # <<>>
    /\ "udp_jobid" \in Range(mrg_before)
    /\ Len(mrg_column_names) = Len(mrg_before) + 1

\* ------------------------------------------------------------------------
\* BlobStore: the blobstore emulator on local storage
\* ------------------------------------------------------------------------
\* blob names of the calls: a name at the root of the container, a name in
\* the blob folder downloads, and the folder's own name
BlobNames == {"testfile-1.txt", "downloads", "downloads/testfile-1.txt"}

\* local files named by the calls: put's sources, get's target
SourceFiles == {"testfile-1.txt", "bad-file-1.txt"}
TargetFiles == {"testfile-2.txt"}

\* glob patterns of list: the root, a name, a pattern on root names
ListPatterns == {"", "bad-path*", "test*"} \cup BlobNames

Root == ""

\* just_path (os.path.dirname) of a blob name
just_path(blob_name) ==
    IF blob_name = "downloads/testfile-1.txt" THEN "downloads" ELSE Root

\* the path shutil.copy2 writes when its target is a folder: the folder's
\* path and the source's base name
InFolder(folder, source_file_name) ==
    IF folder = "downloads" /\ source_file_name = "testfile-1.txt"
    THEN "downloads/testfile-1.txt"
    ELSE "downloads/other"

\* fnmatch of a blob name with a pattern that has a wildcard
GlobMatch(pattern, name) ==
    CASE pattern = "*" -> just_path(name) = Root
      [] pattern = "test*" -> name = "testfile-1.txt"
      [] pattern = "downloads/*" -> just_path(name) = "downloads"
      [] pattern = "bad-path*" -> FALSE
      [] OTHER -> name = pattern

\* what a call gives back and leaves behind
Outcome(returned, raised, logged, files, folders, local) ==
    [returned |-> returned, raised |-> raised, logged |-> logged,
     files |-> files, folders |-> folders, local |-> local]

\* a decorator that calls the method whether the store is connected or not
ensure_connected_Calls(resource, files, folders, local, outcome) == outcome

\* ensure_connected: the wrapped method is called if self.resource is set;
\* otherwise the error is logged and ConnectionError is raised
ensure_connected(resource, files, folders, local, outcome) ==
    IF resource THEN outcome
    ELSE Outcome(NoneVal, "ConnectionError", "error", files, folders, local)

\* BlobStore.get
BlobStoreGet(files, folders, local, target_file_name, blob_name) ==
    IF blob_name \notin files
    THEN Outcome(FALSE, "", "warning", files, folders, local)
    ELSE Outcome(TRUE, "", "debug", files, folders,
                 local \cup {target_file_name})

\* BlobStore.put: create_folder raises when the blob's folder is a file
\* (mkdir with exist_ok), copy2 copies into the target when it is a folder
BlobStorePut(files, folders, local, source_file_name, blob_name) ==
    IF source_file_name \notin local
    THEN Outcome(FALSE, "", "warning", files, folders, local)
    ELSE IF just_path(blob_name) \in files
    THEN Outcome(NoneVal, "FileExistsError", "debug", files, folders, local)
    ELSE LET made == folders \cup ({just_path(blob_name)} \ {Root})
         IN  IF blob_name \in made
             THEN Outcome(TRUE, "", "debug",
                          files \cup {InFolder(blob_name, source_file_name)},
                          made, local)
             ELSE Outcome(TRUE, "", "debug", files \cup {blob_name}, made,
                          local)

\* BlobStore.delete
BlobStoreDelete(files, folders, local, blob_name) ==
    IF blob_name \notin files
    THEN Outcome(FALSE, "", "warning", files, folders, local)
    ELSE Outcome(TRUE, "", "debug", files \ {blob_name}, folders, local)

\* BlobStore.list: the names of the blobs and blob folders glob.glob finds
\* for the pattern; '' is '*', a folder's name is '<folder>/*'
BlobStoreList(files, folders, local, glob_pattern) ==
    LET pattern == IF glob_pattern = "" THEN "*"
                   ELSE IF glob_pattern \in folders
                   THEN "downloads/*"
                   ELSE glob_pattern
    IN  Outcome({n \in files \cup folders : GlobMatch(pattern, n)}, "",
                "debug", files, folders, local)

Call(op, file, blob, outcome) ==
    /\ bs_result' = [op |-> op, file |-> file, blob |-> blob,
                     returned |-> outcome.returned,
                     raised |-> outcome.raised, logged |-> outcome.logged]
    /\ bs_files' = outcome.files
    /\ bs_folders' = outcome.folders
    /\ bs_local' = outcome.local
    /\ bs_calls' = 1 - bs_calls

\* BlobStore.create: the container's folder is made, the object disconnects
BlobStoreCreate ==
    /\ bs_container' = TRUE
    /\ bs_resource' = FALSE
    /\ Call("create", "", "", Outcome(TRUE, "", IF bs_container THEN "warning"
                                                ELSE "info",
                                      bs_files, bs_folders, bs_local))
    /\ UNCHANGED <<coreVars, storeVars, tblVars, relanded, schVars, ignVars, dmnVars, mrgVars, mtxVars>>

\* BlobStore.remove: the container's folder is deleted with all it holds
BlobStoreRemove ==
    /\ bs_container' = FALSE
    /\ bs_resource' = FALSE
    /\ Call("remove", "", "", Outcome(bs_container, "",
                                      IF bs_container THEN "info" ELSE "warning",
                                      {}, {}, bs_local))
    /\ UNCHANGED <<coreVars, storeVars, tblVars, relanded, schVars, ignVars, dmnVars, mrgVars, mtxVars>>

\* BlobStore.connect: connected if the container's folder exists
BlobStoreConnect ==
    /\ bs_resource' = bs_container
    /\ Call("connect", "", "", Outcome(bs_container, "",
                                       IF bs_container THEN "debug" ELSE "warning",
                                       bs_files, bs_folders, bs_local))
    /\ UNCHANGED <<coreVars, storeVars, tblVars, relanded, schVars, ignVars, dmnVars, mrgVars, mtxVars, bs_container>>

\* BlobStore.disconnect
BlobStoreDisconnect ==
    /\ bs_resource' = FALSE
    /\ Call("disconnect", "", "", Outcome(TRUE, "", "", bs_files, bs_folders,
                                          bs_local))
    /\ UNCHANGED <<coreVars, storeVars, tblVars, relanded, schVars, ignVars, dmnVars, mrgVars, mtxVars, bs_container>>

GetCall ==
    /\ \E target_file_name \in TargetFiles, blob_name \in BlobNames :
         Call("get", target_file_name, blob_name,
              ensure_connected(bs_resource, bs_files, bs_folders, bs_local,
                  BlobStoreGet(bs_files, bs_folders, bs_local,
                               target_file_name, blob_name)))
    /\ UNCHANGED <<coreVars, storeVars, tblVars, relanded, schVars, ignVars, dmnVars, mrgVars, mtxVars, bs_resource,
                   bs_container>>

PutCall ==
    /\ \E source_file_name \in SourceFiles, blob_name \in BlobNames :
         Call("put", source_file_name, blob_name,
              ensure_connected(bs_resource, bs_files, bs_folders, bs_local,
                  BlobStorePut(bs_files, bs_folders, bs_local,
                               source_file_name, blob_name)))
    /\ UNCHANGED <<coreVars, storeVars, tblVars, relanded, schVars, ignVars, dmnVars, mrgVars, mtxVars, bs_resource,
                   bs_container>>

DeleteCall ==
    /\ \E blob_name \in BlobNames :
         Call("delete", "", blob_name,
              ensure_connected(bs_resource, bs_files, bs_folders, bs_local,
                  BlobStoreDelete(bs_files, bs_folders, bs_local, blob_name)))
    /\ UNCHANGED <<coreVars, storeVars, tblVars, relanded, schVars, ignVars, dmnVars, mrgVars, mtxVars, bs_resource,
                   bs_container>>

ListCall ==
    /\ \E glob_pattern \in ListPatterns :
         Call("list", "", glob_pattern,
              ensure_connected(bs_resource, bs_files, bs_folders, bs_local,
                  BlobStoreList(bs_files, bs_folders, bs_local, glob_pattern)))
    /\ UNCHANGED <<coreVars, storeVars, tblVars, relanded, schVars, ignVars, dmnVars, mrgVars, mtxVars, bs_resource,
                   bs_container>>

BlobOnly ==
    /\ InitOf({Project(CfgTimestamp, CfgTimestamp)})
    /\ SelectOff
    /\ StoreOff
    /\ TableFileOff
    /\ RelandOff
    /\ ScheduleOff
    /\ IgnoreOff
    /\ DaemonOff
    /\ MergeOff
    /\ MutexOff
    /\ StageOff

BlobInit == BlobOnly /\ BlobOff

BlobNext ==
    \/ BlobStoreCreate
    \/ BlobStoreRemove
    \/ BlobStoreConnect
    \/ BlobStoreDisconnect
    \/ GetCall
    \/ PutCall
    \/ DeleteCall
    \/ ListCall

SpecBlob == BlobInit /\ [][BlobNext]_vars

\* a call of get, put, delete or list has been made
CalledOperation ==
    /\ bs_calls' # bs_calls
    /\ bs_result'.op \in {"get", "put", "delete", "list"}

StorageUnchanged ==
    /\ bs_files' = bs_files
    /\ bs_folders' = bs_folders
    /\ bs_local' = bs_local

\* C26 as stated: get, put, delete and list on a store that is not
\* connected log a failure, return without raising and leave storage as
\* it is.
C26_NotConnectedReturns ==
    [][(CalledOperation /\ ~bs_resource) =>
          /\ bs_result'.raised = ""
          /\ bs_result'.logged = "error"
          /\ StorageUnchanged]_vars

\* C26, amended: they log the failure, raise ConnectionError and leave
\* storage as it is.
C26_NotConnectedRaises ==
    [][(CalledOperation /\ ~bs_resource) =>
          /\ bs_result'.raised = "ConnectionError"
          /\ bs_result'.logged = "error"
          /\ StorageUnchanged]_vars

\* a put on a store that was disconnected after it had taken a blob
C26_Witness ==
    /\ ~bs_resource
    /\ bs_container
    /\ bs_files # {}
    /\ bs_result.op = "put"
    /\ bs_result.file \in bs_local
    /\ bs_result.raised = "ConnectionError"

\* C27: on a connected store, put of a missing local file, get of a missing
\* blob and delete of a missing blob return False and change nothing in the
\* container, list of a pattern that matches nothing returns the empty
\* list, put of an existing file returns True and leaves the blob of that
\* name in place, and get of a blob that is in place returns True.
C27_ConnectedOperations ==
    [][(CalledOperation /\ bs_resource) =>
          LET call == bs_result'
              unchanged == bs_files' = bs_files /\ bs_folders' = bs_folders
          IN  /\ (call.op = "put" /\ call.file \notin bs_local)
                    => (call.returned = FALSE /\ unchanged)
              /\ (call.op \in {"get", "delete"} /\ call.blob \notin bs_files)
                    => (call.returned = FALSE /\ unchanged)
              /\ (call.op = "list"
                    /\ \/ call.blob = "bad-path*"
                       \/ /\ call.blob \in BlobNames
                          /\ call.blob \notin bs_files \cup bs_folders)
                    => call.returned = {}
              /\ (call.op = "put" /\ call.file \in bs_local)
                    => (call.returned = TRUE /\ call.blob \in bs_files')
              /\ (call.op = "get" /\ call.blob \in bs_files)
                    => call.returned = TRUE]_vars

\* ------------------------------------------------------------------------
\* FileMutex: a pid file as mutex
\* ------------------------------------------------------------------------
\* a pid file left behind by a process that has ended
StalePidFile == [exists |-> TRUE, pid |-> DeadPid, creator |-> 0]

\* is_process(pid): the pid is that of a running process; None (an empty
\* pid file) is not
is_process(pid) == pid.kind = "running"

\* FileMutex.is_stale: the pid file exists and is older than the boot time
\* or holds no pid of a running process
is_stale(file) == file.exists /\ ~is_process(file.pid)

\* the pid file is open in a process other than p
OpenElsewhere(file, p) ==
    /\ file.exists
    /\ file.creator \in Procs \ {p}
    /\ mtx_pc[file.creator] \in {"write", "held"}

\* delete_file(file_name, ignore_errors=True) by process p: the file is
\* unlinked; where the platform refuses to delete a file that another
\* process has open, the error is ignored and the file stays
delete_file(file, p) ==
    IF ~file.exists THEN {file}
    ELSE IF OpenElsewhere(file, p) THEN {NoPidFile, file}
    ELSE {NoPidFile}

MutexOnly ==
    /\ InitOf({Project(CfgTimestamp, CfgTimestamp)})
    /\ SelectOff
    /\ StoreOff
    /\ TableFileOff
    /\ RelandOff
    /\ ScheduleOff
    /\ IgnoreOff
    /\ DaemonOff
    /\ MergeOff
    /\ BlobOff
    /\ StageOff

\* the processes are about to call acquire; the pid file does not exist or
\* has been left behind by a process that ended
MutexInit ==
    /\ MutexOnly
    /\ mtx_file \in {NoPidFile, StalePidFile}
    /\ mtx_pc = [p \in Procs |-> "idle"]
    /\ mtx_tries = [p \in Procs |-> 0]

\* acquire, lines 82-86: reset, then the stale check
MutexIsStale(p) ==
    /\ mtx_pc[p] = "idle"
    /\ mtx_tries[p] < MaxTries
    /\ mtx_tries' = [mtx_tries EXCEPT ![p] = @ + 1]
    /\ mtx_pc' = [mtx_pc EXCEPT ![p] = IF is_stale(mtx_file) THEN "delete"
                                       ELSE "open"]
    /\ UNCHANGED <<coreVars, storeVars, tblVars, relanded, schVars, ignVars, dmnVars, mrgVars, blbVars, mtx_file>>

\* acquire, lines 87-88: the pid file found stale is deleted
MutexDeleteStale(p) ==
    /\ mtx_pc[p] = "delete"
    /\ mtx_file' \in delete_file(mtx_file, p)
    /\ mtx_pc' = [mtx_pc EXCEPT ![p] = "open"]
    /\ UNCHANGED <<coreVars, storeVars, tblVars, relanded, schVars, ignVars, dmnVars, mrgVars, blbVars, mtx_tries>>

\* acquire, lines 90-93 and 104-107: open(file_name, 'x') creates the pid
\* file, or raises OSError because it exists and acquire returns False
MutexOpen(p) ==
    /\ mtx_pc[p] = "open"
    /\ IF mtx_file.exists
       THEN /\ mtx_pc' = [mtx_pc EXCEPT ![p] = "idle"]
            /\ UNCHANGED mtx_file
       ELSE /\ mtx_file' = [exists |-> TRUE, pid |-> NoPid, creator |-> p]
            /\ mtx_pc' = [mtx_pc EXCEPT ![p] = "write"]
    /\ UNCHANGED <<coreVars, storeVars, tblVars, relanded, schVars, ignVars, dmnVars, mrgVars, blbVars, mtx_tries>>

\* acquire, lines 95-102: the pid is written to the open file, which may
\* have been unlinked since, and acquire returns True
MutexWritePid(p) ==
    /\ mtx_pc[p] = "write"
    /\ mtx_file' = IF mtx_file.exists /\ mtx_file.creator = p
                   THEN [mtx_file EXCEPT !.pid = PidOf(p)]
                   ELSE mtx_file
    /\ mtx_pc' = [mtx_pc EXCEPT ![p] = "held"]
    /\ UNCHANGED <<coreVars, storeVars, tblVars, relanded, schVars, ignVars, dmnVars, mrgVars, blbVars, mtx_tries>>

\* release: the file handle is closed and the file of that name deleted
MutexRelease(p) ==
    /\ mtx_pc[p] = "held"
    /\ mtx_file' \in delete_file(mtx_file, p)
    /\ mtx_pc' = [mtx_pc EXCEPT ![p] = "idle"]
    /\ UNCHANGED <<coreVars, storeVars, tblVars, relanded, schVars, ignVars, dmnVars, mrgVars, blbVars, mtx_tries>>

MutexNext ==
    \E p \in Procs :
        \/ MutexIsStale(p)
        \/ MutexDeleteStale(p)
        \/ MutexOpen(p)
        \/ MutexWritePid(p)
        \/ MutexRelease(p)

SpecMutex == MutexInit /\ [][MutexNext]_vars

\* C28: at most one process holds the mutex: its acquire has returned True
\* and it has not released.
C28_AtMostOneHolder ==
    Cardinality({p \in Procs : mtx_pc[p] = "held"}) <= 1

\* ------------------------------------------------------------------------
\* Stage of packages that hold a table marked for drop
\* ------------------------------------------------------------------------
\* the files of a table whose table object has drop_table set
DropTableFile(cdc, batches) ==
    [present |-> TRUE, table |-> [cdc |-> cdc, drop_table |-> TRUE],
     schema |-> TRUE, pk |-> TRUE, batches |-> batches]

\* capture files with a table marked for drop: the marked table comes
\* first or last among the sorted *.table files
DropPackageFiles ==
    { Project(DropTableFile("timestamp", <<>>),
              TableFile("none", TRUE, TRUE, <<{Row(1, 1)}>>)),
      Project(TableFile("timestamp", TRUE, TRUE, <<{Row(1, 2)}>>),
              DropTableFile("none", <<>>)) }

DropStageInit ==
    /\ InitOf({Project(CfgTimestamp, CfgTimestamp)})
    /\ SelectOff /\ UtilOff
    /\ StageIdle
    /\ zip_tables \in [StageNames -> DropPackageFiles]

SpecDropStage == DropStageInit /\ [][StageNext]_vars

\* table files of the unzipped package that are marked for drop
MarkedForDrop ==
    {t \in PackageTables : stage_work_folder[t].table.drop_table}

AppendedStatRows ==
    {stat_log'[i] : i \in (Len(stat_log) + 1)..Len(stat_log')}

\* C32: whatever archive runs have happened, re-runs of a package after a
\* failure included, no two rows of the stat log are the same event of the
\* same job, and the 'capture' row of a package's own job.log is never
\* appended: a 'capture' row comes from the last_job.log of the package.
C32_NoDuplicateMetrics ==
    /\ [](\A i, j \in 1..Len(stat_log) :
              stat_log[i] = stat_log[j] => i = j)
    /\ [][\A row \in AppendedStatRows :
              row.event_stage = "capture"
                 => /\ row.job_id = local_capture_file.last_job_log
                    /\ row.job_id # ParseInt(local_capture_file.name.job)]_vars

\* ------------------------------------------------------------------------
\* Schedule.wait and the loop of Daemon.run around it
\* ------------------------------------------------------------------------
\* the minutes the clock of the model goes through: trim_seconds(now())
Times ==
    << [year |-> 2019, month |-> 1, day |-> 30, weekday |-> "wed",
        hour |-> 23, minute |-> 30],
       [year |-> 2019, month |-> 1, day |-> 31, weekday |-> "thu",
        hour |-> 0, minute |-> 0],
       [year |-> 2019, month |-> 1, day |-> 31, weekday |-> "thu",
        hour |-> 0, minute |-> 30],
       [year |-> 2019, month |-> 2, day |-> 1, weekday |-> "fri",
        hour |-> 0, minute |-> 30] >>

\* f'{current_time:%H:%M}' and f'{current_time:%m-%d}'
HourMinute(t) == ZeroPad(t.hour, 2) \o <<":">> \o ZeroPad(t.minute, 2)
MonthDay(t) == ZeroPad(t.month, 2) \o <<"-">> \o ZeroPad(t.day, 2)

\* calendar.monthrange(year, month)[1]
LastDayOfMonth(year, month) ==
    IF month = 2
    THEN IF (year % 4 = 0 /\ year % 100 # 0) \/ year % 400 = 0
         THEN 29 ELSE 28
    ELSE IF month \in {4, 6, 9, 11} THEN 30 ELSE 31

\* [schedule] sections the model draws the settings from
ScheduleSections ==
    { NoSchedule,
      [NoSchedule EXCEPT !.hourly_at = {30}, !.skip_days_of_week = {"thu"}],
      [NoSchedule EXCEPT !.daily_at = {<<0, 0, ":", 0, 0>>,
                                        <<0, 0, ":", 3, 0>>},
                         !.skip_days_of_month = {0}],
      [NoSchedule EXCEPT !.skip_hours_of_day = {23},
                         !.skip_days_of_year = {<<0, 2, "-", 0, 1>>}],
      [NoSchedule EXCEPT !.daily_at = {<<0, 0, ":", 3, 0>>},
                         !.hourly_at = {0, 30}] }

\* a test of the repeat within the same minute that is never made
is_skipped_NoRepeatTest(sched, last_time, now) ==
    LET t == Times[now]
    IN  \/ t.hour \in sched.skip_hours_of_day
        \/ t.weekday \in sched.skip_days_of_week
        \/ t.day \in {IF d < 1 THEN LastDayOfMonth(t.year, t.month) + d ELSE d :
                        d \in sched.skip_days_of_month}
        \/ MonthDay(t) \in sched.skip_days_of_year

\* Schedule.is_skipped
is_skipped(sched, last_time, now) ==
    LET t == Times[now]
        poll_only == sched.daily_at = {} /\ sched.hourly_at = {}
    IN  \/ ~poll_only /\ last_time = now
        \/ t.hour \in sched.skip_hours_of_day
        \/ t.weekday \in sched.skip_days_of_week
        \/ t.day \in {IF d < 1 THEN LastDayOfMonth(t.year, t.month) + d ELSE d :
                        d \in sched.skip_days_of_month}
        \/ MonthDay(t) \in sched.skip_days_of_year

\* is_stopped of a subclass that looks at the external stop signal
is_stopped == sch_stop

\* wait, lines 238-250: the trigger the current minute matches
Trigger(sched, now) ==
    IF sched.daily_at = {} /\ sched.hourly_at = {} THEN "poll trigger"
    ELSE IF HourMinute(Times[now]) \in sched.daily_at THEN "daily at"
    ELSE IF Times[now].minute \in sched.hourly_at THEN "hourly at"
    ELSE "none"

\* the other processes and stores stay as they are
ScheduleOnly ==
    /\ InitOf({Project(CfgTimestamp, CfgTimestamp)})
    /\ SelectOff
    /\ StoreOff
    /\ TableFileOff
    /\ RelandOff
    /\ MergeOff
    /\ BlobOff
    /\ MutexOff
    /\ IgnoreOff
    /\ StageOff

ScheduleInit ==
    /\ ScheduleOnly
    /\ dmn_type = "capture"
    /\ dmn_option \in {o \in Options : ~o.onetime}
    /\ dmn_pc = "start"
    /\ dmn_runs = 0
    /\ schedule \in {[s EXCEPT !.poll_frequency = f] :
                        s \in ScheduleSections, f \in 0..MaxPoll}
    /\ sch_pc = "idle"
    /\ sch_loop = 0
    /\ sch_last_time = NoneVal
    /\ sch_now = 1
    /\ sch_stop = FALSE
    /\ sch_checked = FALSE
    /\ sch_ready_times = {}
    /\ sch_result = "none"

\* the clock reaches the next minute
ClockTick ==
    /\ sch_pc # "off"
    /\ sch_now < Len(Times)
    /\ sch_now' = sch_now + 1
    /\ UNCHANGED <<coreVars, storeVars, tblVars, relanded, ignVars, dmnVars, mrgVars, blbVars,
                   mtxVars, schedule, sch_pc, sch_loop, sch_last_time,
                   sch_stop, sch_checked, sch_ready_times, sch_result>>

\* the external stop signal is raised, and stays raised
RaiseStop ==
    /\ sch_pc # "off"
    /\ ~sch_stop
    /\ sch_stop' = TRUE
    /\ UNCHANGED <<coreVars, storeVars, tblVars, relanded, ignVars, dmnVars, mrgVars, blbVars,
                   mtxVars, schedule, sch_pc, sch_loop, sch_last_time,
                   sch_now, sch_checked, sch_ready_times, sch_result>>

\* Daemon.run, lines 133-135, calls wait, lines 215-221: the first poll
\* cycle begins
WaitCall ==
    /\ dmn_pc = "wait"
    /\ sch_pc = "idle"
    /\ dmn_runs < MaxRuns
    /\ sch_pc' = "loop"
    /\ sch_loop' = 0
    /\ sch_checked' = FALSE
    /\ UNCHANGED <<coreVars, storeVars, tblVars, relanded, ignVars, dmnVars, mrgVars, blbVars,
                   mtxVars, schedule, sch_last_time, sch_now, sch_stop,
                   sch_ready_times, sch_result>>

\* wait, lines 222-225: one pass of the loop over range(poll_frequency):
\* a second of sleep, then is_stopped; when it is true wait returns False
\* and run, lines 139-145, leaves its loop for cleanup
SleepAndCheck ==
    /\ sch_pc = "loop"
    /\ sch_loop < schedule.poll_frequency
    /\ sch_checked' = TRUE
    /\ IF is_stopped
       THEN /\ sch_pc' = "idle"
            /\ sch_result' = "stopped"
            /\ dmn_pc' = "cleanup"
            /\ UNCHANGED sch_loop
       ELSE /\ sch_loop' = sch_loop + 1
            /\ UNCHANGED <<sch_pc, sch_result, dmn_pc>>
    /\ UNCHANGED <<coreVars, storeVars, tblVars, relanded, ignVars, mrgVars, blbVars, mtxVars,
                   dmn_type, dmn_option, dmn_runs, schedule, sch_last_time,
                   sch_now, sch_stop, sch_ready_times>>

\* wait, lines 227-250 with ready, lines 209-213: the sleep loop is over;
\* the current minute is skipped or matches no trigger, and the next poll
\* cycle begins, or wait returns ready and run, line 136, calls main
Evaluate ==
    /\ sch_pc = "loop"
    /\ sch_loop = schedule.poll_frequency
    /\ IF \/ is_skipped(schedule, sch_last_time, sch_now)
          \/ Trigger(schedule, sch_now) = "none"
       THEN /\ sch_loop' = 0
            /\ sch_checked' = FALSE
            /\ UNCHANGED <<sch_pc, sch_last_time, sch_ready_times,
                           sch_result, dmn_pc>>
       ELSE /\ sch_last_time' = sch_now
            /\ sch_ready_times' = sch_ready_times \cup {sch_now}
            /\ sch_result' = "ready"
            /\ sch_pc' = "idle"
            /\ dmn_pc' = "main"
            /\ UNCHANGED <<sch_loop, sch_checked>>
    /\ UNCHANGED <<coreVars, storeVars, tblVars, relanded, ignVars, mrgVars, blbVars, mtxVars,
                   dmn_type, dmn_option, dmn_runs, schedule, sch_now,
                   sch_stop>>

ScheduleNext ==
    \/ DaemonStart
    \/ WaitCall
    \/ SleepAndCheck
    \/ Evaluate
    \/ MainReturns
    \/ DaemonCleanup
    \/ ClockTick
    \/ RaiseStop

SpecSchedule == ScheduleInit /\ [][ScheduleNext]_vars

\* wait returns in this step
WaitReturns == sch_pc = "loop" /\ sch_pc' = "idle"

\* C33: in every poll cycle of wait the stop signal is checked at least
\* once, whatever the valid poll_frequency: when the sleep loop of a cycle
\* is over, is_stopped has been called in it; once the signal is raised,
\* wait returns False and not ready, run calls no further main and goes to
\* cleanup; and main, once called, runs to its end.
C33_StopCheckedEveryCycle ==
    /\ []((sch_pc = "loop" /\ sch_loop = schedule.poll_frequency)
             => sch_checked)
    /\ [][/\ (sch_stop /\ WaitReturns)
               => /\ sch_result' = "stopped"
                  /\ dmn_pc' = "cleanup"
          /\ (dmn_pc \in InMain /\ dmn_pc' # dmn_pc)
               => dmn_runs' = dmn_runs + 1]_vars

\* wait reports ready in this step
ReportsReady == WaitReturns /\ sch_result' = "ready"

\* the settings name a time of day or a minute of the hour
Scheduled == schedule.daily_at # {} \/ schedule.hourly_at # {}

\* the current minute is in none of the skip settings
PassesSkipConditions ==
    LET t == Times[sch_now]
        last == LastDayOfMonth(t.year, t.month)
    IN  /\ t.hour \notin schedule.skip_hours_of_day
        /\ t.weekday \notin schedule.skip_days_of_week
        /\ \A d \in schedule.skip_days_of_month :
              /\ d >= 1 => t.day # d
              /\ d < 1 => t.day # last + d
        /\ MonthDay(t) \notin schedule.skip_days_of_year

SchemaColumns == { <<"i", "d">>, <<"U", "x">>, <<"u", "y">> }

\* values of table.ignore_columns, split
IgnorePatterns == { <<"u", "*">>, <<"I", "D">>, <<"?", "d">>, <<"u", "x">> }

\* str.lower() on the letters of the names and patterns
LowerText(text) ==
    [i \in 1..Len(text) |->
        CASE text[i] = "I" -> "i"
          [] text[i] = "D" -> "d"
          [] text[i] = "U" -> "u"
          [] OTHER -> text[i]]

\* fnmatch.fnmatch(name, pat) for patterns of letters, * and ?
RECURSIVE fnmatch(_, _)
fnmatch(name, pat) ==
    IF pat = <<>> THEN name = <<>>
    ELSE IF Head(pat) = "*"
    THEN \/ fnmatch(name, Tail(pat))
         \/ name # <<>> /\ fnmatch(Tail(name), pat)
    ELSE /\ name # <<>>
         /\ Head(pat) = "?" \/ Head(pat) = Head(name)
         /\ fnmatch(Tail(name), Tail(pat))

\* common.is_glob_match
is_glob_match(glob_pattern, text) ==
    fnmatch(LowerText(text), LowerText(glob_pattern))

\* process_table, lines 242-243: the configured values is_glob_match is
\* true of, called with the column name first and the value second
MatchesOf(column_name, setting) ==
    SelectSeq(setting, LAMBDA pattern : is_glob_match(column_name, pattern))

\* process_table, lines 240-244: the list ignore_columns, with one entry
\* of a column for every configured value found for it
RECURSIVE IgnoreList(_, _)
IgnoreList(columns, setting) ==
    IF columns = <<>> THEN <<>>
    ELSE [i \in 1..Len(MatchesOf(Head(columns), setting)) |-> Head(columns)]
         \o IgnoreList(Tail(columns), setting)

\* the other processes and stores stay as they are
IgnoreOnly ==
    /\ InitOf({Project(CfgTimestamp, CfgTimestamp)})
    /\ SelectOff
    /\ StoreOff
    /\ TableFileOff
    /\ RelandOff
    /\ DaemonOff
    /\ MergeOff
    /\ BlobOff
    /\ MutexOff
    /\ ScheduleOff
    /\ StageOff

\* select_table_schema has returned the columns of the source table
IgnoreInit ==
    /\ IgnoreOnly
    /\ ign_pc = "schema"
    /\ ign_setting \in {<<>>} \cup UNION {[1..k -> IgnorePatterns] : k \in 1..MaxPatterns}
    /\ ign_schema \in DistinctSeqs(SchemaColumns, Cardinality(SchemaColumns))
    /\ ign_before = ign_schema

\* process_table, lines 237-253: the columns of the list are popped from
\* table_schema.columns, one pop for each entry, and the schema is saved;
\* the pop of a column that is already gone raises KeyError
IgnoreColumns ==
    /\ ign_pc = "schema"
    /\ LET list == IF ign_setting = <<>> THEN <<>>
                   ELSE IgnoreList(ign_schema, ign_setting)
           again == {j \in 1..Len(list) : \E i \in 1..(j - 1) : list[i] = list[j]}
       IN  IF again = {}
           THEN /\ ign_pc' = "saved"
                /\ ign_schema' =
                      SelectSeq(ign_schema, LAMBDA c : c \notin Range(list))
           ELSE LET first == CHOOSE j \in again : \A k \in again : j <= k
                IN  /\ ign_pc' = "raised"
                    /\ ign_schema' =
                          SelectSeq(ign_schema,
                                    LAMBDA c : c \notin Range(SubSeq(list, 1, first - 1)))
    /\ UNCHANGED <<coreVars, storeVars, tblVars, relanded, schVars, dmnVars, mrgVars, blbVars,
                   mtxVars, ign_setting, ign_before>>

SpecIgnore == IgnoreInit /\ [][IgnoreColumns]_vars

\* the column's name matches the configured value as a glob pattern,
\* letter case aside
MatchesPattern(column_name, pattern) ==
    fnmatch(LowerText(column_name), LowerText(pattern))

\* C35: a column of the discovered schema is removed from the captured
\* schema if and only if its name matches one of the configured ignore
\* patterns, the configured value being the pattern and the column name the
\* text, letter case aside; the other columns stay, in schema order.
C35_IgnoredIffMatches ==
    ign_pc \notin {"off", "schema"} =>
        /\ ign_pc = "saved"
        /\ ign_schema =
              SelectSeq(ign_before,
                        LAMBDA c : \A k \in 1..Len(ign_setting) :
                                      ~MatchesPattern(c, ign_setting[k]))

\* ------------------------------------------------------------------------
\* Names of the packages a dataset's capture runs upload
\* ------------------------------------------------------------------------
\* the running job puts its package to landing in this step
PutsPackage == pc = "upload" /\ ~transferred /\ transferred'

\* C36: no two capture runs of the dataset upload a package under the same
\* name: a job that puts its package finds no package of that name among
\* those put before (none is taken out of landing here), also when the
\* job before it ended between its upload and the save of the watermark.
C36_PackageNamesUnique ==
    [][PutsPackage => \A b \in landing : b.name # zip_file.name]_vars

\* ------------------------------------------------------------------------
\* One table of one job: what capture extracts and what stage does with it
\* ------------------------------------------------------------------------
\* a table of file hashes: cdc without primary key (process_table, NOTE of
\* line 271)
CfgFilehash ==
    [cdc |-> "filehash", timestamp |-> TRUE, first_timestamp |-> "",
     first_sequence |-> 0, ignore_table |-> FALSE, drop_table |-> FALSE,
     primary_key |-> FALSE, optional_table |-> FALSE]

\* table sections and table histories the model draws the table from
TableSections ==
    { CfgTimestamp, CfgFirstTimestamp, CfgFuture, CfgSequence, CfgNone,
      CfgOptional, CfgBogus, CfgIgnored, CfgFilehash }
TableHistories ==
    { TableHistory, [last_timestamp |-> 500, last_sequence |-> 5] }

\* the job's current_timestamp
TableFileSnapshot == 1001

\* the other processes and stores stay as they are
TableFileOnly ==
    /\ InitOf({Project(CfgTimestamp, CfgTimestamp)})
    /\ SelectOff
    /\ StoreOff
    /\ DaemonOff
    /\ MergeOff
    /\ BlobOff
    /\ MutexOff
    /\ ScheduleOff
    /\ IgnoreOff
    /\ RelandOff
    /\ StageOff

TableFileInit ==
    /\ TableFileOnly
    /\ tf_pc = "table"
    /\ tf_section \in TableSections
    /\ tf_history \in TableHistories
    /\ tf_found \in BOOLEAN
    /\ tf_pk_found \in BOOLEAN
    /\ tf_file = NoTableFile
    /\ tf_filtered = FALSE

\* process_table, lines 179-291: the table is skipped, or its .table file
\* is saved with the cdc setting as configured (lines 222-224), then its
\* .schema and .pk files (lines 250-257); the cdc setting is normalised and
\* the select is built, with the timestamp where condition when the table
\* object still has a timestamp column (cdc_select.py, lines 288-338)
TableFileCapture ==
    /\ tf_pc = "table"
    /\ LET head == ProcessTableHead(tf_section, tf_history, TableFileSnapshot,
                                    tf_found, tf_pk_found)
       IN  /\ tf_pc' = CASE head.outcome = "skip" -> "skipped"
                         [] head.outcome = "raise" -> "raised"
                         [] OTHER -> "selected"
           /\ tf_file' =
                 IF ~head.started THEN NoTableFile
                 ELSE [present |-> TRUE,
                       table |-> [cdc |-> tf_section.cdc,
                                  drop_table |-> tf_section.drop_table],
                       schema |-> tf_found,
                       pk |-> tf_found /\ (tf_pk_found \/ tf_section.primary_key),
                       batches |-> <<>>]
           /\ tf_filtered' = (head.outcome = "select" /\ head.obj.timestamp)
    /\ UNCHANGED <<coreVars, storeVars, dmnVars, mrgVars, blbVars, mtxVars,
                   schVars, ignVars, relanded, tf_section, tf_history,
                   tf_found, tf_pk_found>>

\* stage_file, lines 242-246, on the table's files of the job's package:
\* the target table is dropped and created again, or the table is merged
TableFileStage ==
    /\ tf_pc = "selected"
    /\ tf_pc' = IF IsFullReload(tf_file) THEN "reloaded" ELSE "merged"
    /\ UNCHANGED <<coreVars, storeVars, dmnVars, mrgVars, blbVars, mtxVars,
                   schVars, ignVars, relanded, tf_section, tf_history,
                   tf_found, tf_pk_found, tf_file, tf_filtered>>

TableFileNext == TableFileCapture \/ TableFileStage

SpecTableFile == TableFileInit /\ [][TableFileNext]_vars

\* C37: when stage drops and recreates a target table for a job's package,
\* capture has extracted the table in that job without a CDC window: the
\* job's select of the table had no timestamp where condition.
C37_FullReloadFromFullExtract ==
    tf_pc = "reloaded" => ~tf_filtered

\* ------------------------------------------------------------------------
\* The drop-table utility during a capture job
\* ------------------------------------------------------------------------
\* the utility has removed the entry of its table from the state file
\* since the running job loaded the file
DroppedDuringJob ==
    /\ pc # "idle"
    /\ drops > 0
    /\ drop_argv \in DOMAIN job_start_file.tables
    /\ capture_job.exists
    /\ drop_argv \notin DOMAIN capture_job.tables

\* C38: the save of the drop-table utility made while a capture job runs
\* is not lost: when the job then saves the state it loaded at its start,
\* the dropped table's entry is still absent from the state file.
C38_DropDuringJobIsKept ==
    [][(DroppedDuringJob /\ CaptureSaveStep)
          => drop_argv \notin DOMAIN capture_job'.tables]_vars

\* ------------------------------------------------------------------------
\* A capture job run with --notransfer
\* ------------------------------------------------------------------------
\* where the window of table t starts for a job that loads the state file
WindowStartOf(file, t) ==
    IF t \in DOMAIN file.tables /\ file.tables[t].last_timestamp # NoneVal
    THEN file.tables[t].last_timestamp
    ELSE iso_to_datetime(IF config[t].first_timestamp = "" THEN "1900-01-01"
                         ELSE config[t].first_timestamp)

\* a job run with --notransfer is under way
NoTransferJob == notransfer /\ pc # "idle"

\* C40: a job run with --notransfer leaves the landing store, the recovery
\* store and the state file (job id and every table's cursor) as they were
\* before the job: no step of the job changes them, so the state file is
\* the one the job loaded, and a job that loads it next runs under the same
\* job id and starts every window where this job started it.
C40_NoTransferFrame ==
    /\ [][NoTransferJob =>
             /\ landing' = landing
             /\ recovery' = recovery
             /\ capture_job' = capture_job]_vars
    /\ [](NoTransferJob =>
             /\ capture_job = job_start_file
             /\ JobHistoryLoad(capture_job).job_id = job_id
             /\ \A t \in TableNames :
                   job_windows[t].has
                      => job_windows[t].start = WindowStartOf(capture_job, t))

\* C40 witness: after a job that transferred its package, a job run with
\* --notransfer has extracted a table and reached its end.
C40_Witness ==
    /\ notransfer
    /\ pc = "done"
    /\ jobs = 2
    /\ capture_job.exists
    /\ job_extracted # {}
    /\ Cardinality(landing) = 1
    /\ recovery.exists

\* ------------------------------------------------------------------------
\* Stage with a capture daemon that starts over
\* ------------------------------------------------------------------------
\* JobHistory.load, lines 115-120, with upload_to_blobstore: a capture
\* daemon that finds no state file starts at the first job id again and puts
\* its packages under the names it has used before
CaptureStartsOver ==
    /\ relanded < MaxRelands
    /\ relanded < landed[CaptureDataset]
    /\ relanded' = relanded + 1
    /\ landing' = BlobPut(landing,
           [exists |-> TRUE,
            name |-> CaptureFileName(CaptureDataset,
                                     JobHistoryLoad(NoFile).job_id + relanded),
            job_log |-> {"capture", "extract", "t1", "t2"},
            last_job_log |-> IF relanded = 0 THEN NoneVal
                             ELSE JobHistoryLoad(NoFile).job_id + relanded - 1])
    /\ UNCHANGED <<storeVars, dmnVars, mrgVars, blbVars, mtxVars, schVars,
                   ignVars, tblVars, selVars, stgVars, capVars, archive_store,
                   stage_arrival_queue, stat_log, apc, capture_file_name,
                   local_capture_file, landed, crashes, archive_start,
                   failed_at, archived>>

\* the capture daemon lands the package of its next job id: of the id after
\* the last one landed, unless it has started over and not caught up
LandNext ==
    /\ relanded \in {0, landed[CaptureDataset]}
    /\ LandDataset

RestageNext ==
    \/ LandNext
    \/ CaptureStartsOver
    \/ ArchiveMain
    \/ GetLandingFile
    \/ ArchiveGet
    \/ UpdateStatLog
    \/ ArchivePut
    \/ ArchiveDelete
    \/ UpdateStageArrivalQueue
    \/ StageMain
    \/ StagePoll
    \/ StageTableFile
    \/ StageBatch
    \/ StageTableEnd
    \/ StageDelete
    \/ StageFail

SpecRestage == StageInit /\ [][RestageNext]_vars

\* entries of the pending queue that name a package of the dataset
PendingOf(d) == {name \in stage_pending_queue : name.dataset = d}

\* packages of the dataset stage has applied, in the order of application
AppliedOf(d) == SelectSeq(staged, LAMBDA name : name.dataset = d)

\* C39: after any sequence of stage applications, a package applied again
\* or out of the order of the job ids included, the pending queue holds at
\* most one entry for each dataset, the name of the job after the job stage
\* has applied last for the dataset.
C39_OnePendingPerDataset ==
    \A d \in DatasetNames :
        /\ Cardinality(PendingOf(d)) <= 1
        /\ AppliedOf(d) # <<>> =>
              PendingOf(d) =
                 {CaptureFileName(d,
                     ParseInt(AppliedOf(d)[Len(AppliedOf(d))].job) + 1)}

====
